---- MODULE Spec2Model ----
(***************************************************************************)
(* Safe query execution, pagination and caching engine.                    *)
(*                                                                         *)
(* A text is a sequence of one-character strings.  To reach the length     *)
(* rule of validateQuery without enumerating ten thousand characters, one  *)
(* element, ZRun, stands for a run of ZRunLen letters 'z': a letter that   *)
(* occurs in no keyword and no pattern of the source, so every regular     *)
(* expression of the source treats the run as ZRunLen word characters      *)
(* that match no literal.  SqlLength counts it with its full length.       *)
(*                                                                         *)
(* Spec is the service at work: executeQuery calls following one another   *)
(* against the redis store and the database, the store connecting,         *)
(* disconnecting, losing and damaging values meanwhile.  SpecValidate and  *)
(* SpecPaginate apply validateQuery and addPaginationToSQL to enumerated   *)
(* inputs, SpecKey applies generateCacheKey to pairs of triples.           *)
(* SpecCache is CacheService and RedisConfig called operation by           *)
(* operation, with the cache invalidation request; SpecHistory is          *)
(* HistoryService with the history routes.  Both start from a store that   *)
(* earlier runs have filled and make MaxOps calls.                         *)
(*                                                                         *)
(* Three specifications put two calls in flight at once, every await a     *)
(* point where the other call may run: SpecOverlap for executeQuery and    *)
(* CacheService.getOrSet, SpecMetrics for CacheService.get with getStats   *)
(* and resetStats, SpecTrim for saveQuery of one user.                     *)
(***************************************************************************)
EXTENDS Integers, Sequences, FiniteSets, TLC

VARIABLES
  dbType,       \* process.env.DB_TYPE || 'postgresql'
  isConnected,  \* RedisConfig.isConnected
  store,        \* the redis key space: key -> [raw, ttl]
  metrics,      \* CacheService.metrics
  calls,        \* the calls in flight or finished, one slot each
  prev,         \* history: the call before, the resets, the entries saved
  ops,          \* the number of operations made
  arg,          \* input of the pure function under check
  ret           \* its output

vars == <<dbType, isConnected, store, metrics, calls, prev, ops, arg, ret>>

-----------------------------------------------------------------------------
(* Bounds *)

MaxTokens == 3
ZRunLen == 9994

-----------------------------------------------------------------------------
(* Characters and texts *)

ZRun == "z.."

LowerLetters ==
  <<"a","b","c","d","e","f","g","h","i","j","k","l","m",
    "n","o","p","q","r","s","t","u","v","w","x","y","z">>
UpperLetters ==
  <<"A","B","C","D","E","F","G","H","I","J","K","L","M",
    "N","O","P","Q","R","S","T","U","V","W","X","Y","Z">>
Digits == <<"0","1","2","3","4","5","6","7","8","9">>

Range(f) == {f[i] : i \in DOMAIN f}

\* \w of a JavaScript regular expression without the u flag
IsWordCh(c) ==
  c \in Range(LowerLetters) \cup Range(UpperLetters) \cup Range(Digits) \cup {"_", ZRun}

\* \s, and the characters String.prototype.trim removes
IsSpaceCh(c) == c \in {" ", "\n", "\t"}

\* \d
IsDigitCh(c) == c \in Range(Digits)

\* the characters '.' does not match
IsLineTerminator(c) == c = "\n"

LowerCh(c) ==
  IF c \in Range(UpperLetters)
    THEN LowerLetters[CHOOSE i \in DOMAIN UpperLetters : UpperLetters[i] = c]
    ELSE c

\* String.prototype.toLowerCase
ToLowerCase(s) == [i \in 1..Len(s) |-> LowerCh(s[i])]

\* String.prototype.trim
Trim(s) ==
  LET keep == {i \in 1..Len(s) : ~IsSpaceCh(s[i])}
  IN  IF keep = {} THEN <<>>
      ELSE SubSeq(s, CHOOSE i \in keep : \A j \in keep : i <= j,
                     CHOOSE i \in keep : \A j \in keep : i >= j)

\* String.prototype.length
RECURSIVE SqlLength(_)
SqlLength(s) ==
  IF s = <<>> THEN 0
  ELSE (IF Head(s) = ZRun THEN ZRunLen ELSE 1) + SqlLength(Tail(s))

\* the literal lit occurs in s at position p
MatchAt(s, p, lit) ==
  /\ p >= 1
  /\ p + Len(lit) - 1 <= Len(s)
  /\ SubSeq(s, p, p + Len(lit) - 1) = lit

\* the same under the i flag (lit is lower case)
MatchAtI(s, p, lit) ==
  /\ p >= 1
  /\ p + Len(lit) - 1 <= Len(s)
  /\ ToLowerCase(SubSeq(s, p, p + Len(lit) - 1)) = lit

\* String.prototype.startsWith
StartsWith(s, lit) == MatchAt(s, 1, lit)

\* \b at the gap before position p (1 .. Len(s)+1)
WordBoundary(s, p) ==
  LET before == p > 1 /\ IsWordCh(s[p - 1])
      after  == p <= Len(s) /\ IsWordCh(s[p])
  IN  before # after

\* every character of s[p..q] is white space (true for an empty range)
AllSpace(s, p, q) == \A i \in p..q : IsSpaceCh(s[i])

kwSelect == <<"s","e","l","e","c","t">>
kwUnion == <<"u","n","i","o","n">>
kwLimit == <<"l","i","m","i","t">>
kwOffset == <<"o","f","f","s","e","t">>

-----------------------------------------------------------------------------
(* validateQuery *)

blacklistedKeywords ==
  <<<<"i","n","s","e","r","t">>,
    <<"u","p","d","a","t","e">>,
    <<"d","e","l","e","t","e">>,
    <<"d","r","o","p">>,
    <<"c","r","e","a","t","e">>,
    <<"a","l","t","e","r">>,
    <<"t","r","u","n","c","a","t","e">>,
    <<"g","r","a","n","t">>,
    <<"r","e","v","o","k","e">>,
    <<"e","x","e","c">>,
    <<"e","x","e","c","u","t","e">>,
    <<"c","a","l","l">>,
    <<"d","e","c","l","a","r","e">>,
    <<"s","e","t">>,
    <<"u","s","e">>,
    <<"b","a","c","k","u","p">>,
    <<"r","e","s","t","o","r","e">>,
    <<"s","h","u","t","d","o","w","n">>,
    <<"x","p","_">>,
    <<"s","p","_">>,
    <<"f","n","_">>,
    <<"o","p","e","n","r","o","w","s","e","t">>,
    <<"o","p","e","n","d","a","t","a","s","o","u","r","c","e">>,
    <<"b","u","l","k">>,
    <<"i","n","t","o">>,
    <<"o","u","t","f","i","l","e">>,
    <<"d","u","m","p","f","i","l","e">>,
    <<"l","o","a","d","_","f","i","l","e">>,
    <<"p","g","_">>,
    <<"m","y","s","q","l">>,
    <<"p","e","r","f","o","r","m","a","n","c","e","_","s","c","h","e","m","a">>,
    <<"s","y","s">>>>

\* the keyword anywhere in the text, as new RegExp(keyword, 'i') finds it
KeywordLiteralTest(keyword, text) ==
  \E p \in 1..Len(text) : MatchAtI(text, p, keyword)

\* new RegExp(`\\b${keyword}\\b`, 'i').test(text)
KeywordRegexTest(keyword, text) ==
  \E p \in 1..Len(text) :
    /\ WordBoundary(text, p)
    /\ MatchAtI(text, p, keyword)
    /\ WordBoundary(text, p + Len(keyword))

\* /;\s*(drop|delete|update|insert|create|alter)/i
stackedKeywords ==
  { <<"d","r","o","p">>, <<"d","e","l","e","t","e">>, <<"u","p","d","a","t","e">>,
    <<"i","n","s","e","r","t">>, <<"c","r","e","a","t","e">>, <<"a","l","t","e","r">> }

StackedStatementTest(sql) ==
  \E p \in 1..Len(sql) : \E q \in (p + 1)..Len(sql) :
    /\ sql[p] = ";"
    /\ AllSpace(sql, p + 1, q - 1)
    /\ \E kw \in stackedKeywords : MatchAtI(sql, q, kw)

\* /union\s+select/i
UnionSelectTest(sql) ==
  \E p \in 1..Len(sql) : \E q \in (p + 6)..Len(sql) :
    /\ MatchAtI(sql, p, kwUnion)
    /\ AllSpace(sql, p + 5, q - 1)
    /\ MatchAtI(sql, q, kwSelect)

\* /\/\*.*\*\//
BlockCommentTest(sql) ==
  \E p \in 1..Len(sql) : \E q \in (p + 2)..Len(sql) :
    /\ MatchAt(sql, p, <<"/", "*">>)
    /\ MatchAt(sql, q, <<"*", "/">>)
    /\ \A i \in (p + 2)..(q - 1) : ~IsLineTerminator(sql[i])

\* /--\s/
LineCommentTest(sql) ==
  \E p \in 1..Len(sql) :
    /\ MatchAt(sql, p, <<"-", "-">>)
    /\ p + 2 <= Len(sql)
    /\ IsSpaceCh(sql[p + 2])

\* /#/
HashTest(sql) == \E p \in 1..Len(sql) : sql[p] = "#"

\* /xp_cmdshell/i and /sp_executesql/i
PrivilegedProcedureTest(sql) ==
  \E p \in 1..Len(sql) :
    \/ MatchAtI(sql, p, <<"x","p","_","c","m","d","s","h","e","l","l">>)
    \/ MatchAtI(sql, p, <<"s","p","_","e","x","e","c","u","t","e","s","q","l">>)

\* some pattern of injectionPatterns tests true on the raw text
InjectionTest(sql) ==
  \/ StackedStatementTest(sql)
  \/ UnionSelectTest(sql)
  \/ BlockCommentTest(sql)
  \/ LineCommentTest(sql)
  \/ HashTest(sql)
  \/ PrivilegedProcedureTest(sql)

MaxQueryLength == 10000

CountCh(s, c) == Cardinality({i \in 1..Len(s) : s[i] = c})

\* An Error: the fixed part of its message and the interpolated part
Err(msg, detail) == [msg |-> msg, detail |-> detail]
NoError == Err("", <<>>)

\* the first keyword of the list, in list order, whose pattern tests true
FirstKeywordHit(text) ==
  LET hits == {k \in DOMAIN blacklistedKeywords :
                 KeywordRegexTest(blacklistedKeywords[k], text)}
  IN  IF hits = {} THEN 0 ELSE CHOOSE k \in hits : \A j \in hits : k <= j

\* validateQuery(sql): the Error it throws, NoError when it returns
validateQuery_LengthLast(sql) ==
  LET trimmedSQL == ToLowerCase(Trim(sql))
      hit == FirstKeywordHit(trimmedSQL)
  IN  IF ~StartsWith(trimmedSQL, kwSelect)
        THEN Err("Only SELECT statements are allowed", <<>>)
      ELSE IF hit # 0
        THEN Err("Forbidden keyword detected: ", blacklistedKeywords[hit])
      ELSE IF InjectionTest(sql)
        THEN Err("Potential SQL injection detected", <<>>)
      ELSE IF CountCh(sql, "(") # CountCh(sql, ")")
        THEN Err("Unbalanced parentheses in query", <<>>)
      ELSE IF SqlLength(sql) > MaxQueryLength
        THEN Err("Query too long", <<>>)
      ELSE NoError

validateQuery(sql) ==
  LET trimmedSQL == ToLowerCase(Trim(sql))
      hit == FirstKeywordHit(trimmedSQL)
  IN  IF ~StartsWith(trimmedSQL, kwSelect)
        THEN Err("Only SELECT statements are allowed", <<>>)
      ELSE IF hit # 0
        THEN Err("Forbidden keyword detected: ", blacklistedKeywords[hit])
      ELSE IF InjectionTest(sql)
        THEN Err("Potential SQL injection detected", <<>>)
      ELSE IF SqlLength(sql) > MaxQueryLength
        THEN Err("Query too long", <<>>)
      ELSE IF CountCh(sql, "(") # CountCh(sql, ")")
        THEN Err("Unbalanced parentheses in query", <<>>)
      ELSE NoError

-----------------------------------------------------------------------------
(* addPaginationToSQL *)

DigitValue(c) == (CHOOSE i \in DOMAIN Digits : Digits[i] = c) - 1

\* parseInt of a run of decimal digits
RECURSIVE ParseInt(_)
ParseInt(ds) ==
  IF ds = <<>> THEN 0
  ELSE 10 * ParseInt(SubSeq(ds, 1, Len(ds) - 1)) + DigitValue(ds[Len(ds)])

\* `${n}` for an integer n >= 0
RECURSIVE NumberToString(_)
NumberToString(n) ==
  IF n < 10 THEN <<Digits[n + 1]>>
  ELSE NumberToString(n \div 10) \o <<Digits[(n % 10) + 1]>>

AllDigits(s, p, q) == \A i \in p..q : IsDigitCh(s[i])

\* sql.trim().replace(/;+$/, '')
RECURSIVE StripTrailingSemicolons(_)
StripTrailingSemicolons(s) ==
  IF s # <<>> /\ s[Len(s)] = ";"
    THEN StripTrailingSemicolons(SubSeq(s, 1, Len(s) - 1))
    ELSE s

\* the first index >= i of s that holds no white space (Len(s)+1 if none)
RECURSIVE SkipSpace(_, _)
SkipSpace(s, i) ==
  IF i <= Len(s) /\ IsSpaceCh(s[i]) THEN SkipSpace(s, i + 1) ELSE i

\* the first index >= i of s that holds no digit (Len(s)+1 if none)
RECURSIVE SkipDigits(_, _)
SkipDigits(s, i) ==
  IF i <= Len(s) /\ IsDigitCh(s[i]) THEN SkipDigits(s, i + 1) ELSE i

\* the first index of the run of white space that ends at i (i+1 if none)
RECURSIVE BackSpace(_, _)
BackSpace(s, i) ==
  IF i >= 1 /\ IsSpaceCh(s[i]) THEN BackSpace(s, i - 1) ELSE i + 1

\* (\s+OFFSET\s+\d+)?$ matches s from index i on
OffsetTailMatches(s, i) ==
  \/ i = Len(s) + 1
  \/ LET o == SkipSpace(s, i)
         e == SkipSpace(s, o + 6)
     IN  /\ o > i
         /\ MatchAtI(s, o, kwOffset)
         /\ e > o + 6
         /\ e <= Len(s)
         /\ SkipDigits(s, e) = Len(s) + 1

\* The matches of /\s+LIMIT\s+(\d+)(\s+OFFSET\s+\d+)?$/i in s, each as
\* <<index of the match, first and last index of group 1>>: LIMIT at index a,
\* white space before it, then white space, a run of digits and the tail
LimitRegexMatches(s) ==
  { <<BackSpace(s, a - 1), SkipSpace(s, a + 5), SkipDigits(s, SkipSpace(s, a + 5)) - 1>> :
      a \in {a \in 2..Len(s) :
               /\ IsSpaceCh(s[a - 1])
               /\ MatchAtI(s, a, kwLimit)
               /\ LET d1 == SkipSpace(s, a + 5)
                      d2 == SkipDigits(s, d1) - 1
                  IN  /\ d1 > a + 5
                      /\ d2 >= d1
                      /\ OffsetTailMatches(s, d2 + 1)} }

\* String.prototype.match: the leftmost match, <<>> when there is none
LimitRegexMatch(s) ==
  LET ms == LimitRegexMatches(s)
  IN  IF ms = {} THEN <<>>
      ELSE CHOOSE m \in ms : \A n \in ms : m[1] <= n[1]

Min(a, b) == IF a <= b THEN a ELSE b

addPaginationToSQL_NoMin(sql, limit, offset) ==
  LET cleanSQL == StripTrailingSemicolons(Trim(sql))
      limitMatch == LimitRegexMatch(cleanSQL)
      base == IF limitMatch # <<>> THEN SubSeq(cleanSQL, 1, limitMatch[1] - 1)
              ELSE cleanSQL
  IN  IF dbType = "postgresql"
        THEN base \o <<" ","L","I","M","I","T"," ">> \o NumberToString(limit)
                  \o <<" ","O","F","F","S","E","T"," ">> \o NumberToString(offset)
        ELSE base \o <<" ","L","I","M","I","T"," ">> \o NumberToString(offset)
                  \o <<",", " ">> \o NumberToString(limit)

\* addPaginationToSQL(sql, limit, offset), under process.env.DB_TYPE
addPaginationToSQL(sql, limit, offset) ==
  LET cleanSQL == StripTrailingSemicolons(Trim(sql))
      limitMatch == LimitRegexMatch(cleanSQL)
      finalLimit ==
        IF limitMatch # <<>>
          THEN Min(ParseInt(SubSeq(cleanSQL, limitMatch[2], limitMatch[3])), limit)
          ELSE limit
      base == IF limitMatch # <<>> THEN SubSeq(cleanSQL, 1, limitMatch[1] - 1)
              ELSE cleanSQL
  IN  IF dbType = "postgresql"
        THEN base \o <<" ","L","I","M","I","T"," ">> \o NumberToString(finalLimit)
                  \o <<" ","O","F","F","S","E","T"," ">> \o NumberToString(offset)
        ELSE base \o <<" ","L","I","M","I","T"," ">> \o NumberToString(offset)
                  \o <<",", " ">> \o NumberToString(finalLimit)

-----------------------------------------------------------------------------
(* Input texts: concatenations of at most MaxTokens tokens *)

RECURSIVE Flatten(_)
Flatten(ss) == IF ss = <<>> THEN <<>> ELSE Head(ss) \o Flatten(Tail(ss))

TextsOver(tokens, n) ==
  {Flatten(ts) : ts \in UNION {[1..k -> tokens] : k \in 0..n}}

ValidateTokens ==
  { kwSelect, <<"S","E","L","E","C","T">>, <<" ">>, <<"a">>, <<"_">>,
    <<"s","e","t">>, <<"D","R","O","P">>, <<";">>, <<"(">>, <<")">>,
    <<"#">>, <<ZRun>> }

\* the statements the documentation and the tests of the validator use
sqlUpdatedAt == \* SELECT updated_at FROM settings
  <<"S","E","L","E","C","T"," ","u","p","d","a","t","e","d","_","a","t"," ","F","R","O","M"," ","s","e","t","t","i","n","g","s">>
sqlDropdown == \* SELECT * FROM dropdown
  <<"S","E","L","E","C","T"," ","*"," ","F","R","O","M"," ","d","r","o","p","d","o","w","n">>
sqlStackedDelete == \* SELECT * FROM t; DELETE FROM t
  <<"S","E","L","E","C","T"," ","*"," ","F","R","O","M"," ","t",";"," ","D","E","L","E","T","E"," ","F","R","O","M"," ","t">>
sqlOrdersLimit5 == \* SELECT * FROM orders LIMIT 5
  <<"S","E","L","E","C","T"," ","*"," ","F","R","O","M"," ","o","r","d","e","r","s"," ","L","I","M","I","T"," ","5">>
sqlOrders == \* SELECT * FROM orders
  <<"S","E","L","E","C","T"," ","*"," ","F","R","O","M"," ","o","r","d","e","r","s">>
sqlLimitSpaceSemi == \* SELECT a LIMIT 5 ;
  <<"S","E","L","E","C","T"," ","a"," ","L","I","M","I","T"," ","5"," ",";">>
sqlSemiSpaceSemi == \* SELECT a; ;
  <<"S","E","L","E","C","T"," ","a",";"," ",";">>
sqlLimitSemiSemi == \* SELECT a LIMIT 5;;
  <<"S","E","L","E","C","T"," ","a"," ","L","I","M","I","T"," ","5",";",";">>
sqlDashNoSpace == \* SELECT a --x
  <<"S","E","L","E","C","T"," ","a"," ","-","-","x">>
sqlDashSpace == \* SELECT a -- x
  <<"S","E","L","E","C","T"," ","a"," ","-","-"," ","x">>
sqlDashAtEnd == \* SELECT a --
  <<"S","E","L","E","C","T"," ","a"," ","-","-">>
sqlBlockOneLine == \* SELECT a /* x */
  <<"S","E","L","E","C","T"," ","a"," ","/","*"," ","x"," ","*","/">>
sqlBlockTwoLines == \* SELECT a /*\nx */
  <<"S","E","L","E","C","T"," ","a"," ","/","*","\n","x"," ","*","/">>
sqlPgReadFile == \* SELECT pg_read_file('x')
  <<"S","E","L","E","C","T"," ","p","g","_","r","e","a","d","_","f","i","l","e","(","'","x","'",")">>
sqlPgShadow == \* SELECT * FROM pg_shadow
  <<"S","E","L","E","C","T"," ","*"," ","F","R","O","M"," ","p","g","_","s","h","a","d","o","w">>
sqlXpDirtree == \* SELECT xp_dirtree
  <<"S","E","L","E","C","T"," ","x","p","_","d","i","r","t","r","e","e">>
sqlPgSpaced == \* SELECT pg_ FROM t
  <<"S","E","L","E","C","T"," ","p","g","_"," ","F","R","O","M"," ","t">>

ExampleTexts ==
  {sqlUpdatedAt, sqlDropdown, sqlStackedDelete, sqlOrdersLimit5, sqlOrders,
   sqlDashNoSpace, sqlDashSpace, sqlDashAtEnd, sqlBlockOneLine, sqlBlockTwoLines,
   sqlPgReadFile, sqlPgShadow, sqlXpDirtree, sqlPgSpaced,
   sqlLimitSpaceSemi, sqlSemiSpaceSemi, sqlLimitSemiSemi}

ValidateTexts == TextsOver(ValidateTokens, MaxTokens) \cup ExampleTexts

NoValue == [fn |-> "none"]

-----------------------------------------------------------------------------
(* JSON.stringify and JSON.parse.  A JavaScript string that is the JSON    *)
(* text of a document d is JsonText(d); Garbage is a string that is no     *)
(* JSON text.  Cells of a row carry their JavaScript type and the length   *)
(* of their JSON text.                                                     *)

Cell(ty, v, len) == [ty |-> ty, v |-> v, len |-> len]

JsonText(d) == [str |-> "json", doc |-> d]
Garbage == [str |-> "garbage", doc |-> <<>>]

\* typeof v === 'string'
IsString(v) == "str" \in DOMAIN v

\* Date.prototype.toJSON turns a Date into its ISO string
CellToJSON(c) ==
  IF c.ty = "date" THEN Cell("string", c.v, c.len) ELSE c

RowToJSON(row) == [f \in DOMAIN row |-> CellToJSON(row[f])]

\* the document JSON.stringify writes for a QueryResult
ResultToJSON(r) ==
  IF "rows" \in DOMAIN r
    THEN [r EXCEPT !.rows = [i \in DOMAIN r.rows |-> RowToJSON(r.rows[i])]]
    ELSE r

\* JSON.stringify(value): of a string, its JSON string literal
JSONStringify(v) ==
  IF IsString(v) THEN JsonText(v) ELSE JsonText(ResultToJSON(v))

JSONParseFails(s) == s.str # "json"

\* JSON.parse(s) of a JSON text
JSONParse(s) == s.doc

RECURSIVE SumLen(_)
SumLen(cells) ==
  IF cells = <<>> THEN 0 ELSE Head(cells).len + SumLen(Tail(cells))

RowCells(row) ==
  LET fs == DOMAIN row
      RECURSIVE Cells(_)
      Cells(S) == IF S = {} THEN <<>>
                  ELSE LET f == CHOOSE f \in S : TRUE
                       IN  <<row[f]>> \o Cells(S \ {f})
  IN  Cells(fs)

\* serializedValue.length for a QueryResult: the cells of its rows and the
\* fixed part (pagination, metadata, punctuation)
ResultOverhead == 200
SerializedLength(r) ==
  IF "rows" \in DOMAIN r
    THEN ResultOverhead + SumLen(Flatten([i \in DOMAIN r.rows |-> RowCells(r.rows[i])]))
    ELSE ResultOverhead

-----------------------------------------------------------------------------
(* The database collaborator's answers *)

rowSmall == [id |-> Cell("number", 1, 1), created_at |-> Cell("date", 20240101, 26)]
rowBig   == [id |-> Cell("number", 2, 1), created_at |-> Cell("string", 0, 2000000)]

\* answers to the paginated statement: rows, fields and the elapsed time
PageAnswers ==
  { [rows |-> <<>>, fields |-> <<>>, ms |-> 1],
    [rows |-> <<rowSmall>>,
     fields |-> <<[name |-> "id", dataTypeID |-> 23, type |-> 0]>>, ms |-> 2],
    [rows |-> <<rowBig>>,
     fields |-> <<[name |-> "id", dataTypeID |-> 0, type |-> 3]>>, ms |-> 3],
    [rows |-> <<rowSmall, rowSmall>>,
     fields |-> <<[name |-> "id", dataTypeID |-> 23, type |-> 0]>>, ms |-> 4] }

\* the row limit the database reads at the end of a paginated statement:
\* n of 'LIMIT n OFFSET o' and of 'LIMIT o, n'
SentLimit(statement) ==
  LET from == CHOOSE i \in 1..Len(statement) :
                /\ AllDigits(statement, i, Len(statement))
                /\ i = 1 \/ ~IsDigitCh(statement[i - 1])
      m == LimitRegexMatch(statement)
  IN  IF m # <<>> THEN ParseInt(SubSeq(statement, m[2], m[3]))
      ELSE ParseInt(SubSeq(statement, from, Len(statement)))

\* the database honours the limit of the statement
HonoursLimit(statement, answer) == Len(answer.rows) <= SentLimit(statement)

\* answers to the count statement: the total_count column of its first row
CountAnswers == {3}

DbFailure == "connection terminated"

-----------------------------------------------------------------------------
(* QueryExecutionService *)

defaultPageSize == 50
cacheTTL == 300
maxSize == 1048576

\* `${n}` for any integer
IntToString(n) ==
  IF n < 0 THEN <<"-">> \o NumberToString(0 - n) ELSE NumberToString(n)

\* the three parts joined without the separator
generateCacheKey_NoSeparator(sql, page, pageSize) ==
  [prefix |-> "query:result:",
   md5 |-> sql \o IntToString(page) \o IntToString(pageSize)]

\* generateCacheKey(sql, page, pageSize): the prefix and the MD5 digest of
\* `${sql}:${page}:${pageSize}`; the digest is taken to be collision free
\* and is represented by the text it is computed from
generateCacheKey(sql, page, pageSize) ==
  [prefix |-> "query:result:",
   md5 |-> sql \o <<":">> \o IntToString(page) \o <<":">> \o IntToString(pageSize)]

\* getTotalCount: the count statement
countPrefix == \* SELECT COUNT(*) as total_count FROM (
  <<"S","E","L","E","C","T"," ","C","O","U","N","T","(","*",")"," ","a",
    "s"," ","t","o","t","a","l","_","c","o","u","n","t"," ","F","R","O",
    "M"," ","(">>
countSuffix == \* ) as count_query
  <<")"," ","a","s"," ","c","o","u","n","t","_","q","u","e","r","y">>

CountSQL_Paginated(originalSQL) ==
  countPrefix \o addPaginationToSQL(originalSQL, defaultPageSize, 0) \o countSuffix
CountSQL(originalSQL) ==
  countPrefix \o StripTrailingSemicolons(Trim(originalSQL)) \o countSuffix

\* explainQuery: the EXPLAIN statement of the dialect
explainPrefixPostgresql == \* EXPLAIN (FORMAT JSON, ANALYZE false)
  <<"E","X","P","L","A","I","N"," ","(","F","O","R","M","A","T"," ","J",
    "S","O","N",","," ","A","N","A","L","Y","Z","E"," ","f","a","l","s",
    "e",")"," ">>
explainPrefixMysql == \* EXPLAIN FORMAT=JSON
  <<"E","X","P","L","A","I","N"," ","F","O","R","M","A","T","=","J","S",
    "O","N"," ">>

ExplainSQL(sql) ==
  IF dbType = "postgresql" THEN explainPrefixPostgresql \o sql
  ELSE explainPrefixMysql \o sql

\* DatabaseConfig.query serves these dialects and throws for any other
DbSupported == dbType \in {"postgresql", "mysql"}

\* executeWithPagination: the clamping of page and pageSize
ClampPage(page) == IF page < 1 THEN 1 ELSE page
ClampPageSize(pageSize) ==
  IF pageSize < 1 \/ pageSize > 100 THEN defaultPageSize ELSE pageSize

PaginatedSQL(req) ==
  addPaginationToSQL(req.sql, ClampPageSize(req.pageSize),
                     (ClampPage(req.page) - 1) * ClampPageSize(req.pageSize))

\* Math.ceil(a / b) for a >= 0, b > 0
CeilDiv_Floor(a, b) == a \div b
CeilDiv(a, b) == (a + b - 1) \div b

\* field.dataTypeID || field.type
FieldType(f) == IF f.dataTypeID # 0 THEN f.dataTypeID ELSE f.type

\* the QueryResult executeWithPagination returns
BuildResult(req, answer, totalCount) ==
  LET page == ClampPage(req.page)
      pageSize == ClampPageSize(req.pageSize)
  IN  [rows |-> answer.rows,
       pagination |->
         [page |-> page,
          pageSize |-> pageSize,
          totalRows |-> totalCount,
          totalPages |-> CeilDiv(totalCount, pageSize),
          hasNextPage |-> page < CeilDiv(totalCount, pageSize),
          hasPreviousPage |-> page > 1],
       metadata |->
         [executionTime |-> answer.ms,
          rowCount |-> Len(answer.rows),
          fields |-> [i \in DOMAIN answer.fields |->
                        [name |-> answer.fields[i].name,
                         type |-> FieldType(answer.fields[i])]]],
       fromCache |-> FALSE]

\* result.rows of the EXPLAIN statement: what rows[0] is, the phrases of the
\* plan's text, the cost it names (0: none)
PlanRows(shape, phrases, cost) == [shape |-> shape, phrases |-> phrases, cost |-> cost]
NoPlan == PlanRows("none", {}, 0)

\* the rows the database answers an EXPLAIN statement with
ExplainAnswers ==
  { PlanRows("empty", {}, 0),                              \* []
    PlanRows("null", {}, 0),                               \* [null]
    PlanRows("text", {"seq scan"}, 0),                     \* ['Seq Scan on orders']
    PlanRows("Plan", {"seq scan"}, 35),                    \* [{Plan: {...}}]
    PlanRows("Plan", {"index scan", "sort", "disk"}, 8),
    PlanRows("query_block", {"table scan", "nested loop", "large"}, 3),
    PlanRows("QUERY PLAN", {"index scan"}, 8),             \* [{'QUERY PLAN': [...]}]
    PlanRows("bigint", {"seq scan"}, 0) }                  \* JSON.stringify throws

ZeroCost == [estimatedRows |-> 0, totalCost |-> 0]
TypeError == [threw |-> "TypeError"]
Threw(v) == "threw" \in DOMAIN v

\* the outer try block of extractCostFromPlan (lines 273-300): reading a
\* property of null throws, a text that does not parse is answered inside
CostOfPlan(planRows) ==
  IF planRows.shape \in {"none", "empty"} THEN ZeroCost
  ELSE IF planRows.shape = "text" THEN ZeroCost
  ELSE IF planRows.shape = "null" THEN TypeError
  ELSE IF planRows.shape = "Plan"
    THEN [startupCost |-> 0, totalCost |-> planRows.cost, estimatedRows |-> 1]
  ELSE IF planRows.shape = "query_block"
    THEN [estimatedRows |-> planRows.cost, totalCost |-> planRows.cost]
  ELSE ZeroCost

\* the catch left out
extractCostFromPlan_Uncaught(planRows) == CostOfPlan(planRows)

\* extractCostFromPlan(planRows)
extractCostFromPlan(planRows) ==
  IF Threw(CostOfPlan(planRows)) THEN ZeroCost ELSE CostOfPlan(planRows)

\* analyzeExecutionPlan(planRows): a plan JSON.stringify throws on has no warnings
analyzeExecutionPlan(planRows) ==
  IF planRows.shape \in {"none", "bigint"} THEN <<>>
  ELSE (IF planRows.phrases \cap {"seq scan", "table scan"} # {}
          THEN <<"Query performs full table scan - consider adding indexes">> ELSE <<>>)
       \o (IF {"nested loop", "large"} \subseteq planRows.phrases
             THEN <<"Query uses nested loops on large datasets - performance may be slow">>
             ELSE <<>>)
       \o (IF {"sort", "disk"} \subseteq planRows.phrases
             THEN <<"Query requires disk-based sorting - consider optimizing">> ELSE <<>>)

\* the ExplainResult explainQuery returns from its catch (lines 260-266)
ExplainFailed(message) ==
  [explainPlan |-> NoPlan, isValid |-> FALSE, error |-> message,
   warnings |-> <<"Query validation failed">>]

\* explainQuery once the EXPLAIN statement was answered (lines 252-259); what
\* is thrown there reaches the catch of lines 260-266
ExplainOk(planRows) ==
  IF Threw(extractCostFromPlan(planRows))
    THEN ExplainFailed("Cannot read properties of null (reading 'Plan')")
    ELSE [explainPlan |-> planRows, isValid |-> TRUE, error |-> "",
          estimatedCost |-> extractCostFromPlan(planRows),
          warnings |-> analyzeExecutionPlan(planRows)]

-----------------------------------------------------------------------------
(* The executeQuery calls.  A call runs from one await of a collaborator   *)
(* (the redis client, the database) to the next in one step; the redis     *)
(* client's events and the store's own changes happen in between.  When a  *)
(* call has finished, its slot takes the next call.                        *)

MaxPage == 2
MaxRequests == 2   \* cache lookups counted by the statistics

MachineTexts == {sqlOrdersLimit5, sqlStackedDelete}
Pages == 0..MaxPage
PageSizes == {1, defaultPageSize, 101}

Req(sql, page, pageSize, useCache, dryRun) ==
  [sql |-> sql, page |-> page, pageSize |-> pageSize,
   useCache |-> useCache, dryRun |-> dryRun]

\* the requests tried: every page with the default page size, page sizes
\* outside the range and inside it, every combination of the two flags,
\* and a text the validator rejects
Requests ==
  {Req(sqlOrdersLimit5, p, defaultPageSize, TRUE, FALSE) : p \in Pages}
    \cup {Req(sqlOrdersLimit5, 1, ps, TRUE, FALSE) : ps \in PageSizes}
    \cup {Req(t, 1, defaultPageSize, u, d) :
            t \in MachineTexts, u \in BOOLEAN, d \in BOOLEAN}

\* validateQuery on the texts the calls submit
Validation_Skipped == [t \in MachineTexts |-> NoError]
Validation == [t \in MachineTexts |-> validateQuery(t)]

NoKey == [prefix |-> "", md5 |-> <<>>]
NoAnswer == [rows |-> <<>>, fields |-> <<>>, ms |-> 0]
NoResult == [none |-> TRUE]
NoOutcome == [kind |-> "none", value |-> NoResult, error |-> NoError]
Returned(v) == [kind |-> "returned", value |-> v, error |-> NoError]
Thrown(e) == [kind |-> "thrown", value |-> NoResult, error |-> e]

IdleCall ==
  [pc |-> "idle",
   req |-> Req(<<>>, 1, defaultPageSize, TRUE, FALSE),
   key |-> NoKey,        \* the cache key of the lookup and of the store
   lookupKey |-> NoKey,  \* history: the cache key of the lookup
   db |-> <<>>,          \* the statements sent to the database, in order
   cache |-> <<>>,       \* the cache operations performed under key, in order
   answer |-> NoAnswer,  \* the rows of the paginated statement
   result |-> NoResult,  \* the result awaiting its cache write
   out |-> NoOutcome,    \* what the call returned or threw
   explain |-> "none",   \* history: how the EXPLAIN statement settled
   plan |-> NoPlan,      \* history: the rows the EXPLAIN statement answered
   failures |-> {},      \* history: the cache failures the call met
   pageFailed |-> FALSE, \* history: the paginated statement failed
   countFailed |-> FALSE,\* history: the count statement failed
   counted |-> 0,        \* history: the total the count statement answered
   fresh |-> NoResult,   \* history: what the supplier of getOrSet returned
   absent0 |-> FALSE,    \* history: no entry for its request when it began
   clean |-> FALSE]      \* history: the store was connected when it began
                         \* and has not failed, lost or damaged a value since

Done(call, out) == [call EXCEPT !.pc = "done", !.out = out, !.result = NoResult]

Failed(call, what) == [call EXCEPT !.failures = @ \cup {what}]

\* history: a failure of the store is noted in every call
Fault(cs) == [c \in DOMAIN cs |-> [cs[c] EXCEPT !.clean = FALSE]]

\* history: the call before the present one, kept when it is the first call
\* of a round trip through the cache (a cached, non-dry-run call that began
\* with no entry for its request and returned a result, the store healthy
\* since it began)
NoPrev == [req |-> Req(<<>>, 1, defaultPageSize, TRUE, FALSE), value |-> NoResult]

Summary(call) ==
  IF /\ call.pc = "done"
     /\ call.out.kind = "returned"
     /\ call.req.useCache
     /\ ~call.req.dryRun
     /\ call.absent0
     /\ call.clean
    THEN [req |-> call.req, value |-> call.out.value]
    ELSE NoPrev

StorePut_IfAbsent(k, entry) ==
  [x \in DOMAIN store \cup {k} |-> IF x \in DOMAIN store THEN store[x] ELSE entry]
StorePut(k, entry) ==
  [x \in DOMAIN store \cup {k} |-> IF x = k THEN entry ELSE store[x]]
StoreDel(k) == [x \in DOMAIN store \ {k} |-> store[x]]

Bump(field) == [metrics EXCEPT ![field] = @ + 1]

\* line 29: the cache is looked up
ShouldLookup_IgnoreDryRun(req) == req.useCache
ShouldLookup_OnlyDryRun(req) == req.useCache /\ req.dryRun
ShouldLookup(req) == req.useCache /\ ~req.dryRun

\* line 48: the result is stored
\* the cache write decided without a look at the rows
ShouldStore_AlsoEmpty(req, result) == req.useCache

ShouldStore(req, result) == req.useCache /\ Len(result.rows) > 0

\* the catch of executeWithPagination (lines 174-176)
PageFailed_CountAnyway(call, message) ==
  [call EXCEPT !.pc = "count", !.db = Append(@, CountSQL(call.req.sql))]
PageFailed(call, message) ==
  Done(call, Thrown(Err("Query execution failed: ", <<message>>)))

\* getTotalCount(originalSQL), given how the count statement settled
getTotalCount_Unknown(settled) ==
  IF settled.failed THEN 1 ELSE settled.total_count
getTotalCount(settled) ==
  IF settled.failed THEN 0 ELSE settled.total_count

\* executeQuery after the lookup missed or was skipped (lines 39-45): the
\* dry run sends the EXPLAIN statement, any other call the paginated one
AfterLookup(call) ==
  IF call.req.dryRun
    THEN IF DbSupported
           THEN [call EXCEPT !.pc = "explain", !.db = Append(@, ExplainSQL(call.req.sql))]
           ELSE Done([call EXCEPT !.explain = "failed"],
                     Returned(ExplainFailed("Explain not supported for database type: sqlite")))
    ELSE IF DbSupported
           THEN [call EXCEPT !.pc = "page", !.db = Append(@, PaginatedSQL(call.req))]
           ELSE PageFailed([call EXCEPT !.pageFailed = TRUE], "Unsupported database type: sqlite")

\* the catch of RedisConfig.get: the error is logged and null returned, which
\* CacheService.get counts as a miss
GetError_Rethrown(call) == Done(call, Thrown(Err("Redis get error", <<>>)))
GetError(call) == AfterLookup(call)

\* the catch of RedisConfig.set: the error is logged and false returned;
\* executeQuery returns the result
SetError(call) == Done(call, Returned(call.result))

\* executeQuery after executeWithPagination returned (lines 47-59), with
\* CacheService.set up to its await of the redis client
AfterExecute(call, result) ==
  IF ShouldStore(call.req, result)
    THEN LET key == generateCacheKey(call.req.sql, call.req.page, call.req.pageSize)
             c1 == [call EXCEPT !.key = key,
                                !.cache = Append(@, "set")]
         IN  IF SerializedLength(result) > maxSize
               THEN Done(c1, Returned(result))
             ELSE IF ~isConnected
               THEN Done(Failed(c1, "set: store disconnected"), Returned(result))
             ELSE [c1 EXCEPT !.pc = "set", !.result = result,
                             !.cache = Append(@, "client.setEx")]
    ELSE Done(call, Returned(result))

\* executeQuery(sql, options) up to its first await
Begin(c) ==
  /\ calls[c].pc \in {"idle", "done"}
  /\ metrics.totalRequests < MaxRequests
  /\ prev' = Summary(calls[c])
  /\ \E req \in Requests :
       LET key == generateCacheKey(req.sql, req.page, req.pageSize)
           call == [IdleCall EXCEPT !.req = req,
                                    !.absent0 = key \notin DOMAIN store,
                                    !.clean = isConnected]
           looked == [call EXCEPT !.key = key,
                                  !.lookupKey = key,
                                  !.cache = <<"get">>]
       IN  IF Validation[req.sql] # NoError
             THEN /\ calls' = [calls EXCEPT ![c] = Done(call, Thrown(Validation[req.sql]))]
                  /\ UNCHANGED metrics
           ELSE IF ShouldLookup(req)
             THEN IF ~isConnected
                    THEN /\ calls' = [calls EXCEPT ![c] =
                              AfterLookup(Failed(looked, "get: store disconnected"))]
                         /\ metrics' = [metrics EXCEPT !.totalRequests = @ + 1,
                                                        !.misses = @ + 1]
                    ELSE /\ calls' = [calls EXCEPT ![c] =
                              [looked EXCEPT !.pc = "get",
                                 !.cache = Append(@, "client.get")]]
                         /\ metrics' = [metrics EXCEPT !.totalRequests = @ + 1]
           ELSE /\ calls' = [calls EXCEPT ![c] = AfterLookup(call)]
                /\ UNCHANGED metrics
  /\ UNCHANGED <<dbType, isConnected, store, arg, ret, ops>>

\* client.get(key) settles: RedisConfig.get and CacheService.get to their
\* end, then executeQuery up to its next await
GetReturns(c) ==
  LET call == calls[c]
      key == call.key
  IN  /\ call.pc = "get"
      /\ \/ \* the client throws: RedisConfig.get returns null, a miss
            /\ metrics' = Bump("misses")
            /\ calls' = Fault([calls EXCEPT ![c] =
                                 GetError(Failed(call, "get: client threw"))])
            /\ prev' = NoPrev
            /\ UNCHANGED store
         \/ \* no value under the key: a miss
            /\ key \notin DOMAIN store
            /\ metrics' = Bump("misses")
            /\ calls' = [calls EXCEPT ![c] = AfterLookup(call)]
            /\ UNCHANGED <<store, prev>>
         \/ \* the stored value is no JSON text: RedisConfig.get deletes it
            /\ key \in DOMAIN store
            /\ JSONParseFails(store[key].raw)
            /\ calls' = [calls EXCEPT ![c] =
                 [Failed(call, "get: value is no JSON text") EXCEPT !.pc = "del",
                    !.cache = Append(@, "client.del")]]
            /\ UNCHANGED <<store, metrics, prev>>
         \/ \* RedisConfig.get returns the parsed value: a hit for CacheService.get
            /\ key \in DOMAIN store
            /\ ~JSONParseFails(store[key].raw)
            /\ LET value == JSONParse(store[key].raw)
               IN  IF IsString(value) /\ JSONParseFails(value)
                     THEN \* this.del is no method of CacheService: the TypeError
                          \* is caught by the outer catch, the entry stays
                          /\ metrics' = [metrics EXCEPT !.hits = @ + 1, !.errors = @ + 1]
                          /\ calls' = [calls EXCEPT ![c] =
                               AfterLookup(Failed(call, "get: value is no JSON text"))]
                     ELSE LET cachedResult == IF IsString(value) THEN JSONParse(value)
                                              ELSE value
                          IN  /\ metrics' = Bump("hits")
                              /\ calls' = [calls EXCEPT ![c] =
                                   Done(call, Returned([cachedResult EXCEPT !.fromCache = TRUE]))]
            /\ UNCHANGED <<store, prev>>
      /\ UNCHANGED <<dbType, isConnected, arg, ret, ops>>

\* client.del(key) of a corrupted entry settles: RedisConfig.get returns null
DelReturns(c) ==
  LET call == calls[c]
  IN  /\ call.pc = "del"
      /\ \/ /\ store' = StoreDel(call.key)
            /\ calls' = [calls EXCEPT ![c] = AfterLookup(call)]
            /\ UNCHANGED prev
         \/ /\ calls' = Fault([calls EXCEPT ![c] =
                                 GetError(Failed(call, "del: client threw"))])
            /\ prev' = NoPrev
            /\ UNCHANGED store
      /\ metrics' = Bump("misses")
      /\ UNCHANGED <<dbType, isConnected, arg, ret, ops>>

\* database.query(paginatedSQL) settles
PageReturns(c) ==
  LET call == calls[c]
  IN  /\ call.pc = "page"
      /\ \/ calls' = [calls EXCEPT ![c] =
                PageFailed([call EXCEPT !.pageFailed = TRUE], DbFailure)]
         \/ \E a \in PageAnswers :
              /\ HonoursLimit(call.db[Len(call.db)], a)
              /\ calls' = [calls EXCEPT ![c] =
                [call EXCEPT !.pc = "count", !.answer = a,
                             !.db = Append(@, CountSQL(call.req.sql))]]
      /\ UNCHANGED <<dbType, isConnected, store, metrics, prev, arg, ret, ops>>

\* database.query(countSQL) settles: getTotalCount, the rest of
\* executeWithPagination and executeQuery up to its next await
CountReturns(c) ==
  LET call == calls[c]
  IN  /\ call.pc = "count"
      /\ \E settled \in {[failed |-> TRUE, total_count |-> 0]}
                          \cup {[failed |-> FALSE, total_count |-> n] : n \in CountAnswers} :
           calls' = [calls EXCEPT ![c] =
             AfterExecute([call EXCEPT !.countFailed = settled.failed,
                                       !.counted = settled.total_count],
                          BuildResult(call.req, call.answer, getTotalCount(settled)))]
      /\ UNCHANGED <<dbType, isConnected, store, metrics, prev, arg, ret, ops>>

\* client.setEx(key, ttl, JSON.stringify(value)) settles
SetReturns(c) ==
  LET call == calls[c]
  IN  /\ call.pc = "set"
      /\ \/ /\ store' = StorePut(call.key,
                 [raw |-> JSONStringify(JSONStringify(call.result)), ttl |-> cacheTTL])
            /\ calls' = [calls EXCEPT ![c] = Done(call, Returned(call.result))]
            /\ UNCHANGED prev
         \/ /\ calls' = Fault([calls EXCEPT ![c] =
                                 SetError(Failed(call, "set: client threw"))])
            /\ prev' = NoPrev
            /\ UNCHANGED store
      /\ UNCHANGED <<dbType, isConnected, metrics, arg, ret, ops>>

\* database.query(explainSQL) settles: explainQuery never throws
ExplainReturns(c) ==
  LET call == calls[c]
  IN  /\ call.pc = "explain"
      /\ \/ calls' = [calls EXCEPT ![c] =
                Done([call EXCEPT !.explain = "failed"], Returned(ExplainFailed(DbFailure)))]
         \/ \E planRows \in ExplainAnswers :
              calls' = [calls EXCEPT ![c] =
                Done([call EXCEPT !.explain = "answered", !.plan = planRows],
                     Returned(ExplainOk(planRows)))]
      /\ UNCHANGED <<dbType, isConnected, store, metrics, prev, arg, ret, ops>>

-----------------------------------------------------------------------------
(* The redis client's events and the store's own changes *)

\* client.on('connect')
RedisConnect ==
  /\ ~isConnected
  /\ isConnected' = TRUE
  /\ UNCHANGED <<dbType, store, metrics, calls, prev, arg, ret, ops>>

\* client.on('error') and client.on('end')
RedisDisconnect ==
  /\ isConnected
  /\ isConnected' = FALSE
  /\ calls' = Fault(calls)
  /\ prev' = NoPrev
  /\ UNCHANGED <<dbType, store, metrics, arg, ret, ops>>

\* The store is read by client.get alone, so what happens to a value is
\* modelled where it can be observed: while a lookup of its key is pending.

\* the TTL of the entry runs out
Expire(c) ==
  /\ calls[c].pc = "get"
  /\ calls[c].key \in DOMAIN store
  /\ store' = StoreDel(calls[c].key)
  /\ calls' = Fault(calls)
  /\ prev' = NoPrev
  /\ UNCHANGED <<dbType, isConnected, metrics, arg, ret, ops>>

\* the value is damaged: it is no JSON text any more, or it is the JSON
\* text of a string that is no JSON text
Corrupt(c) ==
  /\ calls[c].pc = "get"
  /\ \E raw \in {Garbage, JsonText(Garbage)} :
       store' = StorePut(calls[c].key, [raw |-> raw, ttl |-> cacheTTL])
  /\ calls' = Fault(calls)
  /\ prev' = NoPrev
  /\ UNCHANGED <<dbType, isConnected, metrics, arg, ret, ops>>

-----------------------------------------------------------------------------
(* State after construction *)

InitMachine ==
  /\ dbType \in {"postgresql", "mysql", "sqlite"}
  /\ isConnected = FALSE
  /\ store = <<>>
  /\ metrics = [hits |-> 0, misses |-> 0, errors |-> 0, totalRequests |-> 0]
  /\ calls = <<IdleCall>>
  /\ prev = NoPrev
  /\ ops = 0

Init ==
  /\ InitMachine
  /\ arg = NoValue
  /\ ret = NoValue

Next ==
  \/ \E c \in DOMAIN calls : Begin(c)
  \/ \E c \in DOMAIN calls : GetReturns(c)
  \/ \E c \in DOMAIN calls : DelReturns(c)
  \/ \E c \in DOMAIN calls : PageReturns(c)
  \/ \E c \in DOMAIN calls : CountReturns(c)
  \/ \E c \in DOMAIN calls : SetReturns(c)
  \/ \E c \in DOMAIN calls : ExplainReturns(c)
  \/ \E c \in DOMAIN calls : Expire(c)
  \/ \E c \in DOMAIN calls : Corrupt(c)
  \/ RedisConnect
  \/ RedisDisconnect

Spec == Init /\ [][Next]_vars

-----------------------------------------------------------------------------
(* CacheService and RedisConfig, operation by operation *)

Null == [null |-> TRUE]

MaxOps == 2

\* the keys of the three services, and the key a compressed value goes to
keyQueryA  == [prefix |-> "query:result:", md5 |-> <<"a">>]
keyQueryB  == [prefix |-> "query:result:", md5 |-> <<"b">>]
keyLlm     == [prefix |-> "llm:query:", md5 |-> <<"c">>]
keySchema  == [prefix |-> "schema:", md5 |-> <<"complete">>]
CacheKeys  == {keyQueryA, keyQueryB, keyLlm, keySchema}

\* the keys that get and set are called with
UsedKeys   == {keyQueryA, keyQueryB}

\* the last operation's result becomes the one before (history)
Before == ret

\* `${key}:compressed`
CompressedKey(key) == [key EXCEPT !.md5 = @ \o <<":compressed">>]

\* what a client command does: it is carried out, or it throws
ClientOutcomes == {"ok", "throws"}

\* RedisConfig.get(key) on store st: the value returned and the store left
RedisGet(st, connected, key, getOutcome, delOutcome) ==
  IF ~connected \/ getOutcome = "throws" \/ key \notin DOMAIN st
    THEN [value |-> Null, store |-> st]
  ELSE IF JSONParseFails(st[key].raw)
    THEN [value |-> Null,
          store |-> IF delOutcome = "ok"
                      THEN [x \in DOMAIN st \ {key} |-> st[x]] ELSE st]
  ELSE [value |-> JSONParse(st[key].raw), store |-> st]

\* CacheService.get(key, options): the value returned and the counters left
CacheServiceGet_CountsBoth(value, mt, options) ==
  [value |-> value,
   metrics |-> [mt EXCEPT !.totalRequests = @ + 1, !.hits = @ + 1, !.misses = @ + 1]]
CacheServiceGet(value, mt, options) ==
  LET counted == [mt EXCEPT !.totalRequests = @ + 1]
      track(field, m) == IF options.trackMetrics THEN [m EXCEPT ![field] = @ + 1] ELSE m
  IN  IF value # Null
        THEN IF options.parseJSON /\ IsString(value)
               THEN IF JSONParseFails(value)
                      THEN \* this.del is no method: the TypeError reaches the outer catch
                           [value |-> Null, metrics |-> track("errors", track("hits", counted))]
                      ELSE [value |-> JSONParse(value), metrics |-> track("hits", counted)]
               ELSE [value |-> value, metrics |-> track("hits", counted)]
        ELSE [value |-> Null, metrics |-> track("misses", counted)]

GetOptions == [trackMetrics : BOOLEAN, parseJSON : BOOLEAN]

CacheGet ==
  /\ \E key \in UsedKeys, options \in GetOptions,
        getOutcome \in ClientOutcomes, delOutcome \in ClientOutcomes :
       LET r == RedisGet(store, isConnected, key, getOutcome, delOutcome)
           g == CacheServiceGet(r.value, metrics, options)
       IN  /\ store' = r.store
           /\ metrics' = g.metrics
           /\ arg' = [fn |-> "CacheService.get", key |-> key, options |-> options,
                      store |-> store, metrics |-> metrics, connected |-> isConnected]
           /\ ret' = [fn |-> "CacheService.get", key |-> key, value |-> g.value,
                      options |-> options,
                      answered |-> isConnected /\ getOutcome = "ok" /\ delOutcome = "ok"]
           /\ getOutcome = "throws" => delOutcome = "ok"
  /\ prev' = Before
  /\ UNCHANGED <<dbType, isConnected, calls>>
  /\ ops < MaxOps
  /\ ops' = ops + 1

\* resetStats()
ResetStats ==
  /\ metrics' = [hits |-> 0, misses |-> 0, errors |-> 0, totalRequests |-> 0]
  /\ arg' = [fn |-> "resetStats"]
  /\ ret' = [fn |-> "resetStats"]
  /\ prev' = Before
  /\ UNCHANGED <<dbType, isConnected, store, calls>>
  /\ ops < MaxOps
  /\ ops' = ops + 1

\* values handed to CacheService.set
resSmall == BuildResult(Req(sqlOrders, 1, defaultPageSize, TRUE, FALSE),
                        [rows |-> <<rowSmall>>, fields |-> <<>>, ms |-> 2], 1)
resBig   == BuildResult(Req(sqlOrders, 1, defaultPageSize, TRUE, FALSE),
                        [rows |-> <<rowBig>>, fields |-> <<>>, ms |-> 3], 1)

\* serializedValue.length (undefined, and so not above any size, for an
\* object that was not serialized)
ValueLength(serialized) ==
  IF ~IsString(serialized) THEN 0
  ELSE IF JSONParseFails(serialized) THEN 7
  ELSE IF IsString(JSONParse(serialized)) THEN 9
  ELSE SerializedLength(JSONParse(serialized))

\* zlib.gzipSync(serializedValue).toString('base64')
Gzip(serialized) == [str |-> "gzip", doc |-> serialized]

\* RedisConfig.set(key, value, ttl): true when the client stored the value
RedisSet(st, connected, key, value, ttl, setOutcome) ==
  IF ~connected \/ setOutcome = "throws"
    THEN [ok |-> FALSE, store |-> st]
    ELSE [ok |-> TRUE,
          store |-> [x \in DOMAIN st \cup {key} |->
                       IF x = key THEN [raw |-> JSONStringify(value), ttl |-> ttl]
                       ELSE st[x]]]

\* CacheService.set(key, value, ttl, options): what it returns and the store left
CacheServiceSet(st, connected, key, value, ttl, options, setOutcome) ==
  LET serialized == IF options.stringifyJSON THEN JSONStringify(value) ELSE value
      tooLarge == ValueLength(serialized) > maxSize
      r == RedisSet(st, connected,
                    IF tooLarge THEN CompressedKey(key) ELSE key,
                    IF tooLarge THEN Gzip(serialized) ELSE serialized,
                    ttl, setOutcome)
  IN  IF tooLarge /\ ~options.compress
        THEN [ok |-> FALSE, store |-> st, stored |-> FALSE]
        ELSE [ok |-> TRUE, store |-> r.store, stored |-> r.ok]

SetOptions == [compress : BOOLEAN, stringifyJSON : BOOLEAN]

\* the calls of set tried: the default options with a small and with a large
\* value, compression with a large value, a string stored as it is
SetCalls ==
  { [value |-> resSmall, options |-> [compress |-> FALSE, stringifyJSON |-> TRUE]],
    [value |-> resBig,   options |-> [compress |-> FALSE, stringifyJSON |-> TRUE]],
    [value |-> resBig,   options |-> [compress |-> TRUE,  stringifyJSON |-> TRUE]],
    [value |-> Garbage,  options |-> [compress |-> FALSE, stringifyJSON |-> FALSE]] }

CacheSet ==
  /\ \E key \in UsedKeys, call \in SetCalls, setOutcome \in ClientOutcomes :
       LET value == call.value
           options == call.options
           s == CacheServiceSet(store, isConnected, key, value, cacheTTL, options, setOutcome)
       IN  /\ store' = s.store
           /\ arg' = [fn |-> "CacheService.set", key |-> key, value |-> value,
                      options |-> options, store |-> store, metrics |-> metrics,
                      connected |-> isConnected]
           /\ ret' = [fn |-> "CacheService.set", key |-> key, value |-> s.ok,
                      stored |-> s.stored, written |-> value,
                      options |-> options, connected |-> isConnected]
  /\ prev' = Before
  /\ UNCHANGED <<dbType, isConnected, metrics, calls>>
  /\ ops < MaxOps
  /\ ops' = ops + 1

\* key patterns of the KEYS command: a prefix followed by * or by a literal
Star == <<"*">>
patQueries == [prefix |-> "query:result:", md5 |-> Star]
patLlm     == [prefix |-> "llm:query:", md5 |-> Star]
patQueryA  == [prefix |-> "query:result:", md5 |-> <<"a">>]
patNothing == [prefix |-> "session:", md5 |-> Star]
Patterns   == {patQueries, patLlm, patQueryA, patNothing}

Matches(pattern, key) ==
  /\ pattern.prefix = key.prefix
  /\ pattern.md5 = Star \/ pattern.md5 = key.md5

\* how the two client commands of delPattern end; a client that is not
\* connected throws
DelOutcomes == {"ok", "throws", "del throws"}

\* CacheService.delPattern(pattern) on store st: the count returned, the
\* store left and the client commands issued
delPattern_CountFound(st, connected, pattern, outcome) ==
  LET keys == {k \in DOMAIN st : Matches(pattern, k)}
  IN  IF ~connected \/ outcome = "throws"
        THEN [count |-> 0, store |-> st, commands |-> <<"keys">>]
      ELSE IF keys = {}
        THEN [count |-> 0, store |-> st, commands |-> <<"keys">>]
      ELSE IF outcome = "del throws"
        THEN [count |-> Cardinality(keys), store |-> st, commands |-> <<"keys", "del">>]
      ELSE [count |-> Cardinality(keys),
            store |-> [x \in DOMAIN st \ keys |-> st[x]],
            commands |-> <<"keys", "del">>]

delPattern(st, connected, pattern, outcome) ==
  LET keys == {k \in DOMAIN st : Matches(pattern, k)}
  IN  IF ~connected \/ outcome = "throws"
        THEN [count |-> 0, store |-> st, commands |-> <<"keys">>]
      ELSE IF keys = {}
        THEN [count |-> 0, store |-> st, commands |-> <<"keys">>]
      ELSE IF outcome = "del throws"
        THEN [count |-> 0, store |-> st, commands |-> <<"keys", "del">>]
      ELSE [count |-> Cardinality(keys),
            store |-> [x \in DOMAIN st \ keys |-> st[x]],
            commands |-> <<"keys", "del">>]

DelPattern ==
  /\ \E pattern \in Patterns, outcome \in DelOutcomes :
       LET d == delPattern(store, isConnected, pattern, outcome)
       IN  /\ store' = d.store
           /\ arg' = [fn |-> "CacheService.delPattern", pattern |-> pattern,
                      store |-> store, metrics |-> metrics,
                      connected |-> isConnected]
           /\ ret' = [fn |-> "CacheService.delPattern", pattern |-> pattern,
                      value |-> d.count, threw |-> FALSE,
                      answered |-> isConnected /\ outcome = "ok"]
  /\ prev' = Before
  /\ UNCHANGED <<dbType, isConnected, metrics, calls>>
  /\ ops < MaxOps
  /\ ops' = ops + 1

\* RedisConfig.del(key)
RedisDel(st, connected, key, outcome) ==
  IF ~connected \/ outcome # "ok"
    THEN [ok |-> FALSE, store |-> st, commands |-> IF connected THEN <<"del">> ELSE <<>>]
    ELSE [ok |-> TRUE, store |-> [x \in DOMAIN st \ {key} |-> st[x]],
          commands |-> <<"del">>]

\* a flush that removes nothing
RedisFlush_KeepsKeys(st, connected, outcome) ==
  [ok |-> connected /\ outcome = "ok", store |-> st,
   commands |-> IF connected THEN <<"flushAll">> ELSE <<>>]

\* RedisConfig.flush()
RedisFlush(st, connected, outcome) ==
  IF ~connected \/ outcome # "ok"
    THEN [ok |-> FALSE, store |-> st, commands |-> IF connected THEN <<"flushAll">> ELSE <<>>]
    ELSE [ok |-> TRUE, store |-> <<>>, commands |-> <<"flushAll">>]

\* POST /api/v1/cache/invalidate: the body's type (omitted: 'all') and pattern
Omitted == "omitted"
NoPattern == [prefix |-> "", md5 |-> <<>>]
InvalidateTypes == {"all", "schema", "queries", "llm"}
InvalidateBodies ==
  [type : InvalidateTypes \cup {Omitted}, pattern : {NoPattern, patQueryA, patNothing}]

\* deletedCount: a number, or 'all'
Deleted(n) == [all |-> FALSE, count |-> n]
DeletedAll == [all |-> TRUE, count |-> 0]

\* the handler: the store left, deletedCount and the client commands issued
InvalidateHandler(st, connected, body, o1, o2) ==
  LET type == IF body.type = Omitted THEN "all" ELSE body.type
      hasPattern == body.pattern # NoPattern
      first == IF hasPattern
                 THEN delPattern(st, connected, body.pattern, o1)
               ELSE IF type \in {"schema", "all"}
                 THEN LET d == RedisDel(st, connected, keySchema, o1)
                      IN  [count |-> 1, store |-> d.store, commands |-> d.commands]
               ELSE [count |-> 0, store |-> st, commands |-> <<>>]
      second == IF type = "queries" THEN delPattern(first.store, connected, patQueries, o2)
                ELSE IF type = "llm" THEN delPattern(first.store, connected, patLlm, o2)
                ELSE [count |-> 0, store |-> first.store, commands |-> <<>>]
      flush == RedisFlush(second.store, connected, o2)
  IN  IF type = "all" /\ ~hasPattern
        THEN [deletedCount |-> DeletedAll, store |-> flush.store,
              commands |-> first.commands \o second.commands \o flush.commands]
        ELSE [deletedCount |-> Deleted(first.count + second.count), store |-> second.store,
              commands |-> first.commands \o second.commands]

Invalidate ==
  /\ \E body \in InvalidateBodies, o1 \in ClientOutcomes, o2 \in ClientOutcomes :
       LET h == InvalidateHandler(store, isConnected, body, o1, o2)
       IN  /\ store' = h.store
           /\ arg' = [fn |-> "invalidate", body |-> body, store |-> store,
                      metrics |-> metrics, connected |-> isConnected]
           /\ ret' = [fn |-> "invalidate", value |-> h.deletedCount,
                      commands |-> h.commands, success |-> TRUE,
                      answered |-> isConnected /\ o1 = "ok" /\ o2 = "ok"]
  /\ prev' = Before
  /\ UNCHANGED <<dbType, isConnected, metrics, calls>>
  /\ ops < MaxOps
  /\ ops' = ops + 1

-----------------------------------------------------------------------------
(* SpecCache: the cache operations one after another *)

\* the store outlives the process: it is empty, or holds what earlier set
\* calls left, one value damaged since
Stored(st, key, value) ==
  CacheServiceSet(st, TRUE, key, value, cacheTTL,
                  [compress |-> FALSE, stringifyJSON |-> TRUE], "ok").store

PopulatedStore ==
  Stored(Stored(Stored(Stored(<<>>, keyQueryA, resSmall), keyQueryB, resSmall),
                keyLlm, resSmall), keySchema, resSmall)

DamagedStore ==
  [k \in DOMAIN PopulatedStore |->
     IF k = keyQueryB THEN [raw |-> Garbage, ttl |-> cacheTTL] ELSE PopulatedStore[k]]

InitCache ==
  /\ dbType = "postgresql"
  /\ isConnected = FALSE
  /\ store \in {<<>>, PopulatedStore, DamagedStore}
  /\ metrics = [hits |-> 0, misses |-> 0, errors |-> 0, totalRequests |-> 0]
  /\ calls = <<IdleCall>>
  /\ prev = NoPrev
  /\ ops = 0
  /\ arg = NoValue
  /\ ret = NoValue

NextCache ==
  \/ CacheGet
  \/ CacheSet
  \/ DelPattern
  \/ Invalidate
  \/ ResetStats
  \/ RedisConnect
  \/ RedisDisconnect

SpecCache == InitCache /\ [][NextCache]_vars

-----------------------------------------------------------------------------
(* SpecValidate: validateQuery applied to every input text *)

InitValidate ==
  /\ InitMachine
  /\ dbType = "postgresql"
  /\ arg \in {[fn |-> "validateQuery", sql |-> t] : t \in ValidateTexts}
  /\ ret = NoValue

CallValidate ==
  /\ arg.fn = "validateQuery"
  /\ ret = NoValue
  /\ ret' = [fn |-> "validateQuery", error |-> validateQuery(arg.sql)]
  /\ UNCHANGED <<dbType, isConnected, store, metrics, calls, prev, arg, ops>>

SpecValidate == InitValidate /\ [][CallValidate]_vars

-----------------------------------------------------------------------------
(* SpecPaginate: addPaginationToSQL applied to every input text *)

sqlSelectA == <<"s","e","l","e","c","t"," ","a">>

PaginateTokens ==
  { sqlSelectA, <<" ">>, <<";">>, <<"\n">>,
    <<" ","l","i","m","i","t"," ","5">>,
    <<" ","L","I","M","I","T"," ","0","7","0">>,
    <<" ","o","f","f","s","e","t"," ","2">>,
    <<" ","f","r","o","m"," ","(","s","e","l","e","c","t"," ","b"," ",
      "l","i","m","i","t"," ","3",")"," ","t">> }

PaginateTexts == TextsOver(PaginateTokens, MaxTokens) \cup ExampleTexts

\* (pageSize, offset) of the pagination requests tried
PaginateRequests ==
  { [limit |-> 50, offset |-> 0], [limit |-> 20, offset |-> 40],
    [limit |-> 3, offset |-> 3] }

InitPaginate ==
  /\ InitMachine
  /\ arg \in {[fn |-> "addPaginationToSQL", sql |-> t, limit |-> r.limit,
               offset |-> r.offset] : t \in PaginateTexts, r \in PaginateRequests}
  /\ ret = NoValue

CallPaginate ==
  /\ arg.fn = "addPaginationToSQL"
  /\ ret = NoValue
  /\ ret' = [fn |-> "addPaginationToSQL",
             sql |-> addPaginationToSQL(arg.sql, arg.limit, arg.offset)]
  /\ UNCHANGED <<dbType, isConnected, store, metrics, calls, prev, arg, ops>>

SpecPaginate == InitPaginate /\ [][CallPaginate]_vars

-----------------------------------------------------------------------------
(* The validator's rules as the specification words them *)

\* kw occurs in text as a whole word, compared without regard to case: it is
\* delimited on each side by a non-word character or by the end of the text
WholeWordOccurs(kw, text) ==
  \E p \in 1..Len(text) :
    LET q == p + Len(kw)
    IN  /\ q - 1 <= Len(text)
        /\ \A i \in 1..Len(kw) : LowerCh(text[p + i - 1]) = kw[i]
        /\ p = 1 \/ ~IsWordCh(text[p - 1])
        /\ q > Len(text) \/ ~IsWordCh(text[q])

DeniedWords(text) ==
  {kw \in Range(blacklistedKeywords) : WholeWordOccurs(kw, text)}

BeginsWithSelect(text) ==
  LET t == ToLowerCase(Trim(text))
  IN  Len(t) >= 6 /\ \A i \in 1..6 : t[i] = kwSelect[i]

RulePasses(r, text) ==
  CASE r = 1 -> BeginsWithSelect(text)
    [] r = 2 -> DeniedWords(text) = {}
    [] r = 3 -> ~InjectionTest(text)
    [] r = 4 -> SqlLength(text) <= 10000
    [] r = 5 -> CountCh(text, "(") = CountCh(text, ")")

FailingRules(text) == {r \in 1..5 : ~RulePasses(r, text)}

FirstFailingRule(text) ==
  CHOOSE r \in FailingRules(text) : \A q \in FailingRules(text) : r <= q

RuleMessage(r) ==
  CASE r = 1 -> "Only SELECT statements are allowed"
    [] r = 2 -> "Forbidden keyword detected: "
    [] r = 3 -> "Potential SQL injection detected"
    [] r = 4 -> "Query too long"
    [] r = 5 -> "Unbalanced parentheses in query"

Validated == ret # NoValue /\ ret.fn = "validateQuery"

\* C7: validateQuery accepts a text iff it passes all five rules, and when it
\* rejects, the message is that of the first failing rule in the order 1..5
\* (with the name of a denylisted word of the text for rule 2); so a text not
\* beginning with select gets the not-a-SELECT reason and a text with
\* unbalanced parentheses is always rejected.
C7_FiveRuleReference ==
  Validated =>
    LET text == arg.sql
        e == ret.error
    IN  /\ (e = NoError) <=> (FailingRules(text) = {})
        /\ FailingRules(text) # {} =>
             /\ e.msg = RuleMessage(FirstFailingRule(text))
             /\ (e.detail # <<>>) <=> (FirstFailingRule(text) = 2)
             /\ FirstFailingRule(text) = 2 => e.detail \in DeniedWords(text)
        /\ ~BeginsWithSelect(text) => e.msg = "Only SELECT statements are allowed"
        /\ CountCh(text, "(") # CountCh(text, ")") => e # NoError

\* C7 witness: a text over the length limit that also has unbalanced
\* parentheses is rejected as too long
C7_Witness ==
  /\ Validated
  /\ arg.sql = kwSelect \o <<ZRun, ")">>
  /\ ret.error = Err("Query too long", <<>>)

\* C8: for a text beginning with select, the keyword rule rejects iff some
\* denylisted keyword occurs in the text as a whole word, without regard to
\* case; a keyword that is only part of a longer identifier does not reject.
C8_WholeWordDenylist ==
  (Validated /\ BeginsWithSelect(arg.sql)) =>
    /\ (ret.error.msg = "Forbidden keyword detected: ") <=> (DeniedWords(arg.sql) # {})
    /\ arg.sql \in {sqlUpdatedAt, sqlDropdown} => ret.error = NoError

\* C8 witness: the keyword after a semicolon in an otherwise valid SELECT
C8_Witness ==
  /\ Validated
  /\ arg.sql = sqlStackedDelete
  /\ ret.error = Err("Forbidden keyword detected: ", <<"d","e","l","e","t","e">>)

-----------------------------------------------------------------------------
(* The pagination rewrite as the specification words it *)

\* the first index of the run of digits that ends at i (i+1 if none)
RECURSIVE BackDigits(_, _)
BackDigits(s, i) ==
  IF i >= 1 /\ IsDigitCh(s[i]) THEN BackDigits(s, i - 1) ELSE i + 1

\* s[p..q] is the word w, without regard to case
IsWordAt(s, p, q, w) ==
  /\ p >= 1
  /\ q - p + 1 = Len(w)
  /\ \A i \in 1..Len(w) : LowerCh(s[p + i - 1]) = w[i]

\* s ends in 'LIMIT n' read backwards from index last: the clause's first
\* index (the white space before LIMIT included) and n, or found = FALSE
LimitNBefore(s, last) ==
  LET n1 == BackDigits(s, last)
      w1 == BackSpace(s, n1 - 1)
      l1 == w1 - 5
      c1 == BackSpace(s, l1 - 1)
  IN  IF /\ n1 <= last
         /\ w1 < n1
         /\ IsWordAt(s, l1, w1 - 1, kwLimit)
         /\ c1 < l1
        THEN [found |-> TRUE, from |-> c1, n |-> ParseInt(SubSeq(s, n1, last))]
        ELSE [found |-> FALSE]

\* s ends in 'LIMIT n' or in 'LIMIT n OFFSET m'
TrailingLimitClause(s) ==
  LET m1 == BackDigits(s, Len(s))
      w2 == BackSpace(s, m1 - 1)
      o1 == w2 - 6
      w3 == BackSpace(s, o1 - 1)
  IN  IF LimitNBefore(s, Len(s)).found THEN LimitNBefore(s, Len(s))
      ELSE IF /\ m1 <= Len(s)
              /\ w2 < m1
              /\ IsWordAt(s, o1, w2 - 1, kwOffset)
              /\ w3 < o1
        THEN LimitNBefore(s, w3 - 1)
      ELSE [found |-> FALSE]

\* the limit clause of the dialect
LimitClause(dialect, effectiveLimit, offset) ==
  IF dialect = "postgresql"
    THEN <<" ","L","I","M","I","T"," ">> \o NumberToString(effectiveLimit)
           \o <<" ","O","F","F","S","E","T"," ">> \o NumberToString(offset)
    ELSE <<" ","L","I","M","I","T"," ">> \o NumberToString(offset)
           \o <<",", " ">> \o NumberToString(effectiveLimit)

\* the number of limit clauses of a statement: occurrences of the word LIMIT
CountLimitClauses(s) ==
  Cardinality({p \in 1..Len(s) :
                 /\ p + 4 <= Len(s)
                 /\ IsWordAt(s, p, p + 4, kwLimit)
                 /\ p = 1 \/ ~IsWordCh(s[p - 1])
                 /\ p + 5 > Len(s) \/ ~IsWordCh(s[p + 5])})

Paginated ==
  /\ ret # NoValue
  /\ ret.fn = "addPaginationToSQL"
  /\ validateQuery(arg.sql) = NoError

\* what remains of the statement before the appended clause, and the
\* effective limit, according to the trailing clause of the stripped text
RewriteBase(sql) ==
  LET clean == StripTrailingSemicolons(Trim(sql))
      tl == TrailingLimitClause(clean)
  IN  IF tl.found THEN SubSeq(clean, 1, tl.from - 1) ELSE clean

EffectiveLimit(sql, requested) ==
  LET tl == TrailingLimitClause(StripTrailingSemicolons(Trim(sql)))
  IN  IF tl.found /\ tl.n < requested THEN tl.n ELSE requested

RewriteAsSpecified ==
  ret.sql = RewriteBase(arg.sql)
              \o LimitClause(dbType, EffectiveLimit(arg.sql, arg.limit), arg.offset)

\* C9 as stated: the rewritten statement holds exactly one limit clause, at
\* its end; a trailing 'LIMIT n [OFFSET m]' is removed and the effective
\* limit is min(n, L), otherwise L; the clause appended is in the dialect's
\* syntax and carries the offset even when it is 0.
C9_Original_ExactlyOneLimit ==
  Paginated => (RewriteAsSpecified /\ CountLimitClauses(ret.sql) = 1)

\* C9 amended: the same, except that only the clause at the very end of the
\* stripped text is recognised: every other limit clause of the text (in a
\* subquery, or before the removed one) stays, so the result holds one limit
\* clause more than what remains of the text.
C9_Amended_OneAppendedLimit ==
  Paginated =>
    /\ RewriteAsSpecified
    /\ CountLimitClauses(ret.sql) = CountLimitClauses(RewriteBase(arg.sql)) + 1
    /\ CountLimitClauses(arg.sql) <= 1 /\ TrailingLimitClause(StripTrailingSemicolons(Trim(arg.sql))).found
         => CountLimitClauses(ret.sql) = 1
    /\ CountLimitClauses(arg.sql) = 0 => CountLimitClauses(ret.sql) = 1

\* C9 witness: SELECT * FROM orders LIMIT 5 with pageSize 50, page 1 becomes
\* SELECT * FROM orders LIMIT 5 OFFSET 0
C9_Witness ==
  /\ Paginated
  /\ dbType = "postgresql"
  /\ arg.sql = sqlOrdersLimit5 /\ arg.limit = 50 /\ arg.offset = 0
  /\ ret.sql = sqlOrders \o <<" ","L","I","M","I","T"," ","5"," ","O","F","F","S","E","T"," ","0">>

-----------------------------------------------------------------------------
(* The executeQuery contract *)

Started == {c \in DOMAIN calls : calls[c].pc # "idle"}
Finished == {c \in DOMAIN calls : calls[c].pc = "done"}

\* the kinds of cache operation a call performed
CacheOps(call) == {call.cache[i] : i \in DOMAIN call.cache}

\* the five-rule reference on the texts the calls submit
Rejected == [t \in MachineTexts |-> FailingRules(t) # {}]

\* C1: validation runs before anything else in every executeQuery call: for
\* a text the five rules reject, the call performs no cache get, no cache set
\* and sends no statement to the database, and throws the rejection; and
\* every statement a call sends to the database is the paginated rewrite,
\* the count wrapper or the EXPLAIN wrapper of a text the rules accept.
C1_ValidationFirst ==
  \A c \in Started :
    LET call == calls[c]
        text == call.req.sql
    IN  /\ Rejected[text] =>
             /\ call.pc = "done"
             /\ call.db = <<>>
             /\ call.cache = <<>>
             /\ call.out.kind = "thrown"
             /\ call.out.error.msg = RuleMessage(FirstFailingRule(text))
        /\ \A i \in DOMAIN call.db :
             /\ ~Rejected[text]
             /\ call.db[i] \in {PaginatedSQL(call.req), CountSQL(text), ExplainSQL(text)}

\* C1 witness: a cached call with a rejected text has thrown, the store
\* connected and holding entries, and has touched neither cache nor database
C1_Witness ==
  \E c \in Finished :
    /\ calls[c].req.sql = sqlStackedDelete
    /\ calls[c].req.useCache
    /\ isConnected
    /\ store # <<>>
    /\ calls[c].out = Thrown(Err("Forbidden keyword detected: ", <<"d","e","l","e","t","e">>))
    /\ calls[c].db = <<>>

\* the second call of a round trip: a finished cached call for the request
\* of the call before it, which began with no entry for the request, the
\* store healthy and no entry expired from the start of the first call on
SecondCalls ==
  {c \in Finished :
     /\ prev # NoPrev
     /\ calls[c].req = prev.req
     /\ calls[c].clean}

RoundTrip(first, call) ==
  /\ first.fromCache = FALSE
  /\ call.out.kind = "returned"
  /\ call.out.value.fromCache = TRUE
  /\ ResultToJSON(call.out.value).rows = ResultToJSON(first).rows
  /\ ResultToJSON(call.out.value).metadata = ResultToJSON(first).metadata
  /\ call.db = <<>>

\* C2 as stated: two calls with the same (sql, page, pageSize), the cache
\* enabled, within the TTL and with a healthy store return the same rows and
\* metadata in serialized form, the first with fromCache = false, the second
\* with fromCache = true and without a database statement.
C2_Original_RoundTrip ==
  \A c \in SecondCalls : RoundTrip(prev.value, calls[c])

\* C2 amended: the same, for a first call that returned at least one row and
\* a result whose serialization is at most 1 MB (any other result is not
\* stored, so that the second call computes it again).
C2_Amended_RoundTrip ==
  \A c \in SecondCalls :
    (Len(prev.value.rows) > 0 /\ SerializedLength(prev.value) <= maxSize)
      => RoundTrip(prev.value, calls[c])

\* C2 witness: the second call returns from the cache the row of the first,
\* its date cell in serialized form
C2_Witness ==
  \E c \in SecondCalls :
    /\ prev.value.rows = <<rowSmall>>
    /\ calls[c].out.value.fromCache
    /\ calls[c].out.value.rows = <<RowToJSON(rowSmall)>>
    /\ calls[c].out.value.rows # prev.value.rows

\* the value a store entry decodes to, if it decodes
Decodes(entry) ==
  /\ ~JSONParseFails(entry.raw)
  /\ IsString(JSONParse(entry.raw))
  /\ ~JSONParseFails(JSONParse(entry.raw))
Decoded(entry) == JSONParse(JSONParse(entry.raw))

IsExplainResult(v) == "isValid" \in DOMAIN v
IsQueryResult(v) == "rows" \in DOMAIN v

\* C3: a dry-run call performs no cache operation and sends no statement
\* but the EXPLAIN statement; it returns an ExplainResult; no entry of the
\* store holds an ExplainResult and no other call returns one.
C3_DryRunBypassesCache ==
  /\ \A c \in Started :
       LET call == calls[c]
       IN  /\ (call.req.dryRun /\ ~Rejected[call.req.sql]) =>
                /\ call.cache = <<>>
                /\ call.key = NoKey
                /\ Len(call.db) <= 1
                /\ \A i \in DOMAIN call.db : call.db[i] = ExplainSQL(call.req.sql)
                /\ call.pc \in {"explain", "done"}
                /\ call.pc = "done" =>
                     call.out.kind = "returned" /\ IsExplainResult(call.out.value)
           /\ (~call.req.dryRun /\ call.out.kind = "returned") =>
                IsQueryResult(call.out.value)
  /\ \A k \in DOMAIN store :
       Decodes(store[k]) => IsQueryResult(Decoded(store[k]))

\* C3 witness: a dry run with the cache enabled has returned a plan from the
\* EXPLAIN statement while the store held a result for its text
C3_Witness ==
  \E c \in Finished :
    LET call == calls[c]
    IN  /\ call.req.dryRun
        /\ call.req.useCache
        /\ generateCacheKey(call.req.sql, call.req.page, call.req.pageSize) \in DOMAIN store
        /\ call.db = <<ExplainSQL(call.req.sql)>>
        /\ call.out.kind = "returned"
        /\ call.out.value.isValid

\* the result computed from the database's answers to the call
LiveResults(call) ==
  {BuildResult(call.req, call.answer, n) : n \in CountAnswers \cup {0}}

\* C4: a call that meets a cache failure (the store disconnected, the get or
\* the set throwing, a stored value that is no JSON text) never returns a
\* cached result and never throws the failure: when the database answers
\* its paginated statement it returns the result computed from the answers,
\* with fromCache = false.
C4_CacheFailuresInvisible ==
  \A c \in Finished :
    LET call == calls[c]
    IN  (call.failures # {} /\ ~call.req.dryRun) =>
          /\ call.out.kind = "thrown" => call.pageFailed
          /\ call.out.kind = "returned" =>
               /\ Len(call.db) = 2
               /\ call.out.value \in LiveResults(call)
               /\ call.out.value.fromCache = FALSE

\* C4 witness: the get threw and the set threw, and the call returned the
\* rows of the database
C4_Witness ==
  \E c \in Finished :
    /\ calls[c].failures = {"get: client threw", "set: client threw"}
    /\ calls[c].out.kind = "returned"
    /\ calls[c].out.value.rows = <<rowSmall>>

\* C5: when the paginated statement fails, the call throws an error whose
\* message begins with 'Query execution failed: ', sends no count statement
\* and performs no cache set.
C5_PageFailure ==
  \A c \in Started :
    LET call == calls[c]
    IN  call.pageFailed =>
          /\ call.pc = "done"
          /\ call.out.kind = "thrown"
          /\ call.out.error.msg = "Query execution failed: "
          /\ \A i \in DOMAIN call.db : call.db[i] # CountSQL(call.req.sql)
          /\ CacheOps(call) \cap {"set", "client.setEx"} = {}

\* C5 witness: the lookup missed, the paginated statement was sent and failed
C5_Witness ==
  \E c \in Finished :
    /\ calls[c].pageFailed
    /\ calls[c].db = <<PaginatedSQL(calls[c].req)>>
    /\ CacheOps(calls[c]) = {"get", "client.get"}
    /\ calls[c].out = Thrown(Err("Query execution failed: ", <<DbFailure>>))

\* C6: when the count statement fails after the paginated statement was
\* answered, the call returns the rows of the answer with totalRows = 0,
\* totalPages = 0 and hasNextPage = false; it does not throw.
C6_CountFailure ==
  \A c \in Started :
    LET call == calls[c]
        result == IF call.pc = "done" THEN call.out.value ELSE call.result
    IN  call.countFailed =>
          /\ call.pc \in {"set", "done"}
          /\ call.pc = "done" => call.out.kind = "returned"
          /\ result.rows = call.answer.rows
          /\ result.pagination.totalRows = 0
          /\ result.pagination.totalPages = 0
          /\ result.pagination.hasNextPage = FALSE

\* C6 witness: page 2 returned its row after the count statement failed
C6_Witness ==
  \E c \in Finished :
    /\ calls[c].countFailed
    /\ calls[c].out.kind = "returned"
    /\ calls[c].out.value.rows = <<rowSmall>>
    /\ calls[c].out.value.pagination.page = 2
    /\ calls[c].out.value.pagination.hasPreviousPage

\* C10 as stated: every use of page and pageSize in a call is a use of the
\* clamped values: the cache key of the lookup and of the store, the limit
\* and offset of the paginated statement, the page and pageSize of the result.
C10_ClampedEverywhere ==
  \A c \in Started :
    LET call == calls[c]
        page == ClampPage(call.req.page)
        pageSize == ClampPageSize(call.req.pageSize)
    IN  /\ call.key # NoKey => call.key = generateCacheKey(call.req.sql, page, pageSize)
        /\ (call.db # <<>> /\ ~call.req.dryRun) =>
             call.db[1] = addPaginationToSQL(call.req.sql, pageSize, (page - 1) * pageSize)
        /\ (call.out.kind = "returned" /\ IsQueryResult(call.out.value)
              /\ call.failures = {} /\ ~call.out.value.fromCache) =>
             /\ call.out.value.pagination.page = page
             /\ call.out.value.pagination.pageSize = pageSize

-----------------------------------------------------------------------------
(* Pagination metadata *)

\* the least number of pages of pageSize rows that hold totalRows rows
PagesFor(totalRows, pageSize) ==
  CHOOSE n \in 0..totalRows :
    /\ n * pageSize >= totalRows
    /\ \A m \in 0..totalRows : m * pageSize >= totalRows => n <= m

\* C11: every result a non-dry-run call returns has at most pageSize rows,
\* rowCount equal to the number of rows, totalPages = ceil(totalRows /
\* pageSize), hasNextPage = (page < totalPages) and hasPreviousPage =
\* (page > 1), page and pageSize being the clamped values.
C11_PaginationMetadata ==
  \A c \in Finished :
    LET call == calls[c]
        v == call.out.value
        page == IF call.req.page < 1 THEN 1 ELSE call.req.page
        pageSize == IF call.req.pageSize \in 1..100 THEN call.req.pageSize ELSE 50
    IN  (call.out.kind = "returned" /\ ~call.req.dryRun) =>
          /\ Len(v.rows) <= pageSize
          /\ v.metadata.rowCount = Len(v.rows)
          /\ v.pagination.totalPages = PagesFor(v.pagination.totalRows, pageSize)
          /\ v.pagination.hasNextPage = (page < v.pagination.totalPages)
          /\ v.pagination.hasPreviousPage = (page > 1)

\* C11 witness: with pageSize 1 the statement's limit 5 gives way to 1, the
\* database returns one row of three, on three pages
C11_Witness ==
  \E c \in Finished :
    /\ calls[c].req.pageSize = 1
    /\ calls[c].out.kind = "returned"
    /\ Len(calls[c].out.value.rows) = 1
    /\ calls[c].out.value.pagination.totalRows = 3
    /\ calls[c].out.value.pagination.totalPages = 3
    /\ calls[c].out.value.pagination.hasNextPage

-----------------------------------------------------------------------------
(* HistoryService: entries, the users' history sets and the query index,  *)
(* all kept in the redis store                                             *)

historyTTL == 2592000

Users == {"alice", "bob"}
HistoryIds == {"h1", "h2", "h3", "h4"}

\* naturalLanguageQuery as its words, in lower case
wShow   == <<"s","h","o","w">>
wOf     == <<"o","f">>
wOrders == <<"o","r","d","e","r","s">>
wUsers  == <<"u","s","e","r","s">>
HistoryQueries == {<<wShow, wOrders>>, <<wShow, wOf, wUsers>>}

\* the historyEntry of saveQuery (the fields used here)
HistoryEntry(id, userId, query) ==
  [id |-> id, userId |-> userId, naturalLanguageQuery |-> query, success |-> TRUE]

EntryKey(id)           == [prefix |-> "history:entry:", md5 |-> <<id>>]
UserHistoryKey(userId) == [prefix |-> "user_history:", md5 |-> <<userId>>]
GlobalHistoryKey       == [prefix |-> "history:", md5 |-> <<"global_history">>]
IndexKey(word)         == [prefix |-> "history:index:", md5 |-> word]

\* the words indexQuery and removeFromQueryIndex go through
QueryWords(query) == {query[i] : i \in {j \in DOMAIN query : Len(query[j]) > 2}}

\* the members of a set or sorted set (scores left out)
Members(st, key) == IF key \in DOMAIN st THEN st[key].members ELSE {}

\* zAdd / sAdd followed by expire (ttl 0: none); zRem / sRem, which drop a
\* key left without members
SAdd(st, key, member, ttl) ==
  [x \in DOMAIN st \cup {key} |->
     IF x = key THEN [members |-> Members(st, key) \cup {member}, ttl |-> ttl] ELSE st[x]]

SRem(st, key, member) ==
  IF Members(st, key) \ {member} = {}
    THEN [x \in DOMAIN st \ {key} |-> st[x]]
    ELSE [st EXCEPT ![key].members = @ \ {member}]

\* saveQuery(queryData, userId) with the store connected throughout or not
\* at all: the entry, the user's set, the global set, the index (the sets
\* stay below maxHistoryPerUser and maxGlobalHistory, nothing is trimmed)
saveQuery(st, connected, id, userId, query) ==
  LET entry == HistoryEntry(id, userId, query)
      s1 == CacheServiceSet(st, connected, EntryKey(id), entry, historyTTL,
                            [compress |-> FALSE, stringifyJSON |-> TRUE], "ok").store
      s2 == SAdd(s1, UserHistoryKey(userId), id, historyTTL)
      s3 == SAdd(s2, GlobalHistoryKey, id, 0)
      indexKeys == {IndexKey(w) : w \in QueryWords(query)}
  IN  IF ~connected THEN st
      ELSE [x \in DOMAIN s3 \cup indexKeys |->
              IF x \in indexKeys
                THEN [members |-> Members(s3, x) \cup {id}, ttl |-> historyTTL]
                ELSE s3[x]]

SaveQuery ==
  /\ ops < MaxOps
  /\ ops' = ops + 1
  /\ \E id \in HistoryIds, userId \in Users, query \in HistoryQueries :
       /\ EntryKey(id) \notin DOMAIN store
       /\ store' = saveQuery(store, isConnected, id, userId, query)
       /\ arg' = [fn |-> "saveQuery", historyId |-> id, userId |-> userId,
                  store |-> store, metrics |-> metrics]
       /\ ret' = [fn |-> "saveQuery", threw |-> FALSE, message |-> "", status |-> 200]
  /\ UNCHANGED <<dbType, isConnected, metrics, calls, prev>>

\* the ownership test of deleteHistoryEntry
Owns_Anyone(entry, userId) == TRUE
Owns(entry, userId) == entry.userId = userId

\* the redis commands of deleteHistoryEntry that were carried out (a command
\* of a client not connected, or one that fails, is skipped and returns false)
DeleteSteps == [zrem : BOOLEAN, del : BOOLEAN, srem : BOOLEAN]

\* deleteHistoryEntry(historyId, userId): whether it threw, the store and the
\* counters left
deleteHistoryEntry(st, mt, connected, historyId, userId, getOutcome, steps) ==
  LET r == RedisGet(st, connected, EntryKey(historyId), getOutcome, "ok")
      g == CacheServiceGet(r.value, mt, [trackMetrics |-> TRUE, parseJSON |-> TRUE])
      entry == g.value
      s1 == IF steps.zrem THEN SRem(st, UserHistoryKey(userId), historyId) ELSE st
      s2 == IF steps.del THEN [x \in DOMAIN s1 \ {EntryKey(historyId)} |-> s1[x]] ELSE s1
      indexKeys == {IndexKey(w) : w \in QueryWords(entry.naturalLanguageQuery)} \cap DOMAIN s2
      rest(x) == s2[x].members \ {historyId}
      s3 == IF steps.srem
              THEN [x \in {y \in DOMAIN s2 : y \in indexKeys => rest(y) # {}} |->
                      IF x \in indexKeys THEN [s2[x] EXCEPT !.members = rest(x)] ELSE s2[x]]
              ELSE s2
  IN  IF entry = Null
        THEN [threw |-> TRUE, message |-> "History entry not found",
              store |-> r.store, metrics |-> g.metrics]
      ELSE IF ~Owns(entry, userId)
        THEN [threw |-> TRUE, message |-> "Unauthorized to delete this history entry",
              store |-> r.store, metrics |-> g.metrics]
      ELSE [threw |-> FALSE, message |-> "", store |-> s3, metrics |-> g.metrics]

\* DELETE /api/v1/history/:historyId
DeleteHistoryEntry ==
  /\ ops < MaxOps
  /\ ops' = ops + 1
  /\ \E historyId \in HistoryIds, userId \in Users,
        getOutcome \in ClientOutcomes, steps \in DeleteSteps :
       LET d == deleteHistoryEntry(store, metrics, isConnected, historyId, userId,
                                   getOutcome, steps)
       IN  /\ store' = d.store
           /\ metrics' = d.metrics
           /\ arg' = [fn |-> "deleteHistoryEntry", historyId |-> historyId,
                      userId |-> userId, store |-> store, metrics |-> metrics]
           /\ ret' = [fn |-> "deleteHistoryEntry", threw |-> d.threw,
                      message |-> d.message, status |-> IF d.threw THEN 400 ELSE 200]
  /\ UNCHANGED <<dbType, isConnected, calls, prev>>

-----------------------------------------------------------------------------
(* The history routes, in the order server.js registers them *)

Route(method, path, handler) == [method |-> method, path |-> path, handler |-> handler]
Params == {":historyId"}

Routes ==
  << Route("GET",    <<"api", "v1", "history">>,                "getUserHistory"),
     Route("GET",    <<"api", "v1", "history", "search">>,      "searchHistory"),
     Route("GET",    <<"api", "v1", "history", ":historyId">>,  "getHistoryEntry"),
     Route("DELETE", <<"api", "v1", "history", ":historyId">>,  "deleteHistoryEntry"),
     Route("DELETE", <<"api", "v1", "history">>,                "clearUserHistory"),
     Route("GET",    <<"api", "v1", "history", "stats">>,       "getHistoryStats") >>

\* a route matches a request of its method whose path has its segments, a
\* parameter standing for any segment
RouteMatches(route, method, path) ==
  /\ route.method = method
  /\ Len(route.path) = Len(path)
  /\ \A i \in DOMAIN path : route.path[i] \in Params \/ route.path[i] = path[i]

\* the first matching route handles the request (no handler here calls
\* next); 0: none, the request falls through to the 404 handler
Dispatch(method, path) ==
  LET matching == {i \in DOMAIN Routes : RouteMatches(Routes[i], method, path)}
  IN  IF matching = {} THEN 0
      ELSE CHOOSE i \in matching : \A j \in matching : i <= j

\* getHistoryEntry(historyId), as the GET handler calls it
getHistoryEntry(st, mt, connected, historyId, getOutcome) ==
  LET r == RedisGet(st, connected, EntryKey(historyId), getOutcome, "ok")
      g == CacheServiceGet(r.value, mt, [trackMetrics |-> TRUE, parseJSON |-> TRUE])
  IN  [threw |-> g.value = Null, entry |-> g.value, store |-> r.store, metrics |-> g.metrics]

\* getHistoryStats(userId): the statistics, or the error thrown when an entry
\* of the user's set could not be read
getHistoryStats(st, connected, userId, readOutcome) ==
  LET ids == IF connected THEN Members(st, UserHistoryKey(userId)) ELSE {}
  IN  IF ids = {}
        THEN [threw |-> FALSE,
              stats |-> [totalQueries |-> 0, successfulQueries |-> 0, failedQueries |-> 0,
                         avgExecutionTime |-> 0]]
      ELSE IF readOutcome = "throws" \/ \E id \in ids : EntryKey(id) \notin DOMAIN st
        THEN [threw |-> TRUE, stats |-> Null]
      ELSE [threw |-> FALSE,
            stats |-> [totalQueries |-> Cardinality(ids),
                       successfulQueries |-> Cardinality(ids), failedQueries |-> 0,
                       avgExecutionTime |-> 0]]

\* the paths requested under /api/v1/history/
PathSegments == {"stats", "h1", "h2", "h4"}

\* GET /api/v1/history/<segment>: the handler that ran, the status and the
\* data of the response
HttpGet ==
  /\ ops < MaxOps
  /\ ops' = ops + 1
  /\ \E segment \in PathSegments, userId \in Users, outcome \in ClientOutcomes :
       LET path == <<"api", "v1", "history", segment>>
           route == Dispatch("GET", path)
           handler == IF route = 0 THEN "notFound" ELSE Routes[route].handler
           e == getHistoryEntry(store, metrics, isConnected, segment, outcome)
           s == getHistoryStats(store, isConnected, userId, outcome)
       IN  /\ arg' = [fn |-> "GET", path |-> path, userId |-> userId,
                      store |-> store, metrics |-> metrics]
           /\ IF handler = "getHistoryEntry"
                THEN /\ store' = e.store
                     /\ metrics' = e.metrics
                     /\ ret' = [fn |-> "GET", handler |-> handler,
                                status |-> IF e.threw THEN 404 ELSE 200,
                                success |-> ~e.threw, data |-> e.entry]
              ELSE IF handler = "getHistoryStats"
                THEN /\ UNCHANGED <<store, metrics>>
                     /\ ret' = [fn |-> "GET", handler |-> handler,
                                status |-> IF s.threw THEN 500 ELSE 200,
                                success |-> ~s.threw, data |-> s.stats]
              ELSE /\ UNCHANGED <<store, metrics>>
                   /\ ret' = [fn |-> "GET", handler |-> handler, status |-> 404,
                              success |-> FALSE, data |-> Null]
  /\ UNCHANGED <<dbType, isConnected, calls, prev>>

\* the store outlives the process: empty, or two users' entries, one of
\* them damaged since
SavedHistory ==
  saveQuery(saveQuery(<<>>, TRUE, "h1", "alice", <<wShow, wOrders>>),
            TRUE, "h2", "bob", <<wShow, wOf, wUsers>>)

DamagedHistory ==
  [SavedHistory EXCEPT ![EntryKey("h2")] = [raw |-> Garbage, ttl |-> historyTTL]]

InitHistory ==
  /\ dbType = "postgresql"
  /\ isConnected = FALSE
  /\ store \in {<<>>, SavedHistory, DamagedHistory}
  /\ metrics = [hits |-> 0, misses |-> 0, errors |-> 0, totalRequests |-> 0]
  /\ calls = <<IdleCall>>
  /\ prev = NoPrev
  /\ ops = 0
  /\ arg = NoValue
  /\ ret = NoValue

NextHistory ==
  \/ SaveQuery
  \/ DeleteHistoryEntry
  \/ HttpGet
  \/ RedisConnect
  \/ RedisDisconnect

SpecHistory == InitHistory /\ [][NextHistory]_vars

-----------------------------------------------------------------------------
(* SpecKey: generateCacheKey applied to two triples *)

MaxKeyTokens == 2

\* statement texts of a separator, a digit, a sign and a letter
KeyTokens == {":", "1", "-", "a"}
KeyTexts == UNION {[1..n -> KeyTokens] : n \in 0..MaxKeyTokens}

\* page and pageSize reach generateCacheKey as executeQuery was given them
KeyPages == {0 - 1, 1, 11}
KeyPageSizes == {1, 11}
KeyTriples == [sql : KeyTexts, page : KeyPages, pageSize : KeyPageSizes]

InitKey ==
  /\ InitMachine
  /\ arg \in [fn : {"generateCacheKey"}, first : KeyTriples, second : KeyTriples]
  /\ ret = NoValue

CallKey ==
  /\ arg.fn = "generateCacheKey"
  /\ ret = NoValue
  /\ ret' = [fn |-> "generateCacheKey",
             first |-> generateCacheKey(arg.first.sql, arg.first.page, arg.first.pageSize),
             second |-> generateCacheKey(arg.second.sql, arg.second.page, arg.second.pageSize)]
  /\ UNCHANGED <<dbType, isConnected, store, metrics, calls, prev, arg, ops>>

SpecKey == InitKey /\ [][CallKey]_vars

-----------------------------------------------------------------------------
(* Cache metrics accounting *)

Counted(m) == m.hits + m.misses + m.errors

\* C12 as stated: a call of CacheService.get adds one to totalRequests and one
\* to exactly one of hits, misses and errors, so that between resets
\* hits + misses + errors = totalRequests.
C12_OneCounterPerGet ==
  /\ ret.fn = "CacheService.get" =>
       /\ metrics.totalRequests = arg.metrics.totalRequests + 1
       /\ Counted(metrics) = Counted(arg.metrics) + 1
  /\ Counted(metrics) = metrics.totalRequests

-----------------------------------------------------------------------------
(* Cache key derivation *)

\* C13: generateCacheKey is a function of the triple, and (the digest being
\* collision free) an injective one: two calls return the same key exactly
\* when statement text, page and pageSize are the same, also for texts that
\* hold ':' or digits.
C13_KeyInjective ==
  ret.fn = "generateCacheKey" =>
    /\ ret.first = generateCacheKey(arg.first.sql, arg.first.page, arg.first.pageSize)
    /\ (ret.first = ret.second) <=> (arg.first = arg.second)

\* two triples whose texts differ by what looks like a page suffix
C13_Witness ==
  /\ ret.fn = "generateCacheKey"
  /\ arg.first.sql = <<"a">> /\ arg.first.page = 1 /\ arg.first.pageSize = 11
  /\ arg.second.sql = <<"a", ":">> /\ arg.second.page = 11 /\ arg.second.pageSize = 1
  /\ ret.first # ret.second

-----------------------------------------------------------------------------
(* The dry run *)

\* C14: explainQuery never throws. A dry run of a validated text ends with a
\* returned result: when the EXPLAIN statement failed (rejected, connection
\* lost, dialect not supported) isValid is false and the warnings are the one
\* generic warning; when it was answered, whatever the shape of the plan,
\* isValid is true and the warnings are a list, possibly empty.
C14_ExplainNeverThrows ==
  \A c \in Finished :
    LET call == calls[c]
    IN  (call.req.dryRun /\ ~Rejected[call.req.sql]) =>
          /\ call.out.kind = "returned"
          /\ IsExplainResult(call.out.value)
          /\ call.explain \in {"failed", "answered"}
          /\ call.explain = "failed" =>
               /\ ~call.out.value.isValid
               /\ call.out.value.warnings = <<"Query validation failed">>
          /\ call.explain = "answered" =>
               /\ call.out.value.isValid
               /\ call.out.value.explainPlan = call.plan
               /\ call.out.value.warnings \in Seq(STRING)
               /\ ~Threw(call.out.value.estimatedCost)

\* C14 witness: the EXPLAIN statement was answered with rows whose first is
\* null, and the dry run returned a valid result without warnings
C14_Witness ==
  \E c \in Finished :
    /\ calls[c].req.dryRun
    /\ calls[c].explain = "answered"
    /\ calls[c].plan.shape = "null"
    /\ calls[c].out.kind = "returned"
    /\ calls[c].out.value.isValid
    /\ calls[c].out.value.warnings = <<>>

-----------------------------------------------------------------------------
(* What CacheService.set reports *)

\* C15 as stated: CacheService.set returns true only if the entry was written
\* to the store; when nothing was written (value too large and not
\* compressed, store disconnected, write error) it returns false and leaves
\* the store as it was.
C15_SetReportsFailure ==
  ret.fn = "CacheService.set" =>
    /\ ret.value <=> ret.stored
    /\ ~ret.stored => store = arg.store

-----------------------------------------------------------------------------
(* The invalidation request *)

Commands == {ret.commands[i] : i \in DOMAIN ret.commands}
RequestType == IF arg.body.type = Omitted THEN "all" ELSE arg.body.type
HasPattern == arg.body.pattern # NoPattern

\* the keys of the store before the request that a pattern matches
Matching(pattern) == {k \in DOMAIN arg.store : Matches(pattern, k)}

\* the keys the request's type names besides its pattern
FamilyKeys ==
  IF RequestType = "queries" THEN Matching(patQueries)
  ELSE IF RequestType = "llm" THEN Matching(patLlm)
  ELSE {}

\* the store holds what it held before, less the keys removed
Removed(keys) ==
  /\ DOMAIN store = DOMAIN arg.store \ keys
  /\ \A k \in DOMAIN store : store[k] = arg.store[k]

\* C16 as stated: a request of type 'all' (or without type) and without
\* pattern flushes the store, leaving no key, and scans no pattern; a request
\* with a pattern removes exactly the keys the pattern matches and does not
\* flush.
C16_Original_FlushOrPattern ==
  ret.fn = "invalidate" =>
    /\ (RequestType = "all" /\ ~HasPattern) =>
         /\ "flushAll" \in Commands
         /\ "keys" \notin Commands
         /\ DOMAIN store = {}
    /\ HasPattern =>
         /\ "flushAll" \notin Commands
         /\ Removed(Matching(arg.body.pattern))

\* C16 amended: a request of type 'all' (or without type) and without pattern
\* scans no pattern and, the store connected, ends with the flush command; no
\* key remains when the store carried the commands out, and the store is
\* untouched when it is not connected; deletedCount is 'all' either way. A
\* request with a pattern never flushes and removes nothing but the keys its
\* pattern matches and the keys of its type's family ('queries', 'llm');
\* it removes exactly these when the store carried the commands out.
C16_Amended_FlushOrPattern ==
  ret.fn = "invalidate" =>
    /\ ret.success
    /\ (RequestType = "all" /\ ~HasPattern) =>
         /\ "keys" \notin Commands
         /\ ret.value = DeletedAll
         /\ arg.connected => ret.commands = <<"del", "flushAll">>
         /\ ret.answered => DOMAIN store = {}
         /\ ~arg.connected => ret.commands = <<>> /\ store = arg.store
    /\ HasPattern =>
         /\ "flushAll" \notin Commands
         /\ ret.value # DeletedAll
         /\ \E keys \in SUBSET (Matching(arg.body.pattern) \cup FamilyKeys) : Removed(keys)
         /\ ret.answered => Removed(Matching(arg.body.pattern) \cup FamilyKeys)

\* C16 witness: a request with the pattern of one query key and the type
\* 'queries' has removed the other query key as well, and nothing else
C16_Witness ==
  /\ ret.fn = "invalidate"
  /\ ret.answered
  /\ arg.body = [type |-> "queries", pattern |-> patQueryA]
  /\ arg.store = PopulatedStore
  /\ DOMAIN store = {keyLlm, keySchema}
  /\ ret.value = Deleted(2)

-----------------------------------------------------------------------------
(* Pattern invalidation *)

AfterDelPattern == ret.fn = "CacheService.delPattern"

\* the call before was delPattern with the same pattern, carried out by the store
RepeatedDelPattern ==
  /\ AfterDelPattern
  /\ "fn" \in DOMAIN prev
  /\ prev.fn = "CacheService.delPattern"
  /\ prev.pattern = ret.pattern
  /\ prev.answered

\* C17: delPattern(p) never throws, also when the store errors; it returns the
\* number of keys it removed and leaves every other key as it was; carried
\* out by the store, it removes exactly the keys matching p; called again
\* with nothing written in between it returns 0 and changes nothing; on an
\* empty match set it returns 0 and changes nothing.
C17_DelPatternIdempotent ==
  /\ AfterDelPattern =>
       /\ ~ret.threw
       /\ \E keys \in SUBSET Matching(ret.pattern) :
            Removed(keys) /\ ret.value = Cardinality(keys)
       /\ ret.answered => Removed(Matching(ret.pattern))
       /\ Matching(ret.pattern) = {} => ret.value = 0 /\ store = arg.store
  /\ RepeatedDelPattern => ret.value = 0 /\ store = arg.store

\* C17 witness: delPattern('query:result:*') removed the two query keys of
\* four and, called again, returned 0
C17_Witness ==
  /\ RepeatedDelPattern
  /\ ret.pattern = patQueries
  /\ prev.value = 2
  /\ ret.value = 0
  /\ DOMAIN store = {keyLlm, keySchema}

-----------------------------------------------------------------------------
(* History ownership *)

RequestedKey == EntryKey(arg.historyId)
EntryExists == RequestedKey \in DOMAIN arg.store
EntryReadable == EntryExists /\ ~JSONParseFails(arg.store[RequestedKey].raw)
StoredEntry == Decoded(arg.store[RequestedKey])

\* the keys that belong to the requested entry
EntryKeys ==
  {RequestedKey, UserHistoryKey(StoredEntry.userId)}
    \cup {IndexKey(w) : w \in QueryWords(StoredEntry.naturalLanguageQuery)}

\* C18: deleteHistoryEntry(historyId, userId) removes something only when the
\* stored entry's userId is the caller's; when the two differ, or there is no
\* entry, it throws (the route answers 400) and the entry, the owner's
\* history set and the query index are as they were. What it removes belongs
\* to the requested entry.
C18_OwnerOnly ==
  ret.fn = "deleteHistoryEntry" =>
    /\ (~EntryExists \/ (EntryReadable /\ StoredEntry.userId # arg.userId)) =>
         /\ ret.threw
         /\ ret.status = 400
         /\ store = arg.store
    /\ (EntryReadable /\ store # arg.store) =>
         /\ StoredEntry.userId = arg.userId
         /\ ~ret.threw
         /\ \A k \in DOMAIN arg.store \ EntryKeys : k \in DOMAIN store /\ store[k] = arg.store[k]
         /\ DOMAIN store \subseteq DOMAIN arg.store

\* C18 witness: bob asked to delete alice's entry with the store answering:
\* the call threw and entry, history set and index are as before
C18_Witness ==
  /\ ret.fn = "deleteHistoryEntry"
  /\ arg.userId = "bob"
  /\ arg.store = SavedHistory
  /\ arg.historyId = "h1"
  /\ ret.threw
  /\ ret.message = "Unauthorized to delete this history entry"
  /\ store = SavedHistory
  /\ "h1" \in Members(store, UserHistoryKey("alice"))
  /\ "h1" \in Members(store, IndexKey(wOrders))

-----------------------------------------------------------------------------
(* Route dispatch *)

\* C19 as stated: a GET request to /api/v1/history/stats is handled by the
\* history-statistics handler and answers the caller's statistics; it is
\* never handled by the handler of GET /api/v1/history/:historyId.
C19_StatsRoute ==
  (ret.fn = "GET" /\ arg.path = <<"api", "v1", "history", "stats">>) =>
    /\ ret.handler = "getHistoryStats"
    /\ ret.success => "totalQueries" \in DOMAIN ret.data

-----------------------------------------------------------------------------
(* The cache write of executeQuery *)

Hit(call) ==
  /\ call.out.kind = "returned"
  /\ IsQueryResult(call.out.value)
  /\ call.out.value.fromCache

-----------------------------------------------------------------------------
(* Damaged entries *)

\* the value stored under the key of the get fails deserialization: the
\* stored text is no JSON, or it is the JSON of a string that is no JSON
FoundDamaged ==
  /\ ret.fn = "CacheService.get"
  /\ ret.answered
  /\ ret.options = [trackMetrics |-> TRUE, parseJSON |-> TRUE]
  /\ ret.key \in DOMAIN arg.store
  /\ \/ JSONParseFails(arg.store[ret.key].raw)
     \/ /\ IsString(JSONParse(arg.store[ret.key].raw))
        /\ JSONParseFails(JSONParse(arg.store[ret.key].raw))

\* C21 as stated: a get that finds a stored value failing deserialization
\* returns the fallback, counts the request as an error (and as nothing
\* else) and deletes the entry, so that the next get of the key is a miss.
C21_SelfHealing ==
  FoundDamaged =>
    /\ ret.value = Null
    /\ metrics.errors = arg.metrics.errors + 1
    /\ metrics.hits = arg.metrics.hits
    /\ metrics.misses = arg.metrics.misses
    /\ ret.key \notin DOMAIN store

-----------------------------------------------------------------------------
(* C22: comments in the text handed to validateQuery *)

\* the text holds a line comment: "--" or "#" anywhere
HasLineComment(sql) ==
  \E p \in 1..Len(sql) : MatchAt(sql, p, <<"-", "-">>) \/ sql[p] = "#"

\* the text holds a block comment: "/*" and a later "*/", across lines or not
HasBlockComment(sql) ==
  \E p \in 1..Len(sql) : \E q \in (p + 2)..Len(sql) :
    MatchAt(sql, p, <<"/", "*">>) /\ MatchAt(sql, q, <<"*", "/">>)

\* C22 as stated: every text that holds a line comment ("--" or "#", whatever
\* follows the "--") or a block comment (on one line or across several) is
\* rejected by validateQuery.
C22_CommentsRejected ==
  (Validated /\ (HasLineComment(arg.sql) \/ HasBlockComment(arg.sql))) =>
    ret.error # NoError

-----------------------------------------------------------------------------
(* C23: the prefix entries of the denylist *)

DeniedPrefixes ==
  {<<"x","p","_">>, <<"s","p","_">>, <<"f","n","_">>, <<"p","g","_">>}

\* the text holds an identifier that begins with a denied prefix
ReferencesPrefixed(sql) ==
  \E p \in 1..Len(sql) : \E prefix \in DeniedPrefixes :
    /\ p = 1 \/ ~IsWordCh(sql[p - 1])
    /\ MatchAtI(sql, p, prefix)

\* C23 as stated: every text that references an identifier beginning with one
\* of the prefixes xp_, sp_, fn_, pg_ (SELECT pg_read_file('x'),
\* SELECT * FROM pg_shadow) is rejected by validateQuery.
C23_PrefixesRejected ==
  (Validated /\ ReferencesPrefixed(arg.sql)) => ret.error # NoError

-----------------------------------------------------------------------------
(* C24: trailing semicolons *)

\* the length of the text without its tail of semicolons and whitespace
CoreLen(sql) ==
  IF \E i \in 1..Len(sql) : sql[i] # ";" /\ ~IsSpaceCh(sql[i])
    THEN CHOOSE i \in 1..Len(sql) :
           /\ sql[i] # ";" /\ ~IsSpaceCh(sql[i])
           /\ \A j \in (i + 1)..Len(sql) : sql[j] = ";" \/ IsSpaceCh(sql[j])
    ELSE 0

\* the statement in front of the trailing semicolons
Core(sql) == SubSeq(sql, 1, CoreLen(sql))

\* the text ends with one or more semicolons, with or without whitespace
\* between or around them
EndsWithSemicolons(sql) ==
  \E i \in (CoreLen(sql) + 1)..Len(sql) : sql[i] = ";"

\* the number of semicolons of a text
Semicolons(text) == Cardinality({i \in 1..Len(text) : text[i] = ";"})

\* C24 as stated: for every validated text that ends with semicolons (several,
\* with whitespace between or around them) the paginated statement and the
\* count statement hold none of the trailing semicolons, and a limit clause
\* in front of the semicolons is taken as the existing trailing limit.
C24_SemicolonsStripped ==
  (Paginated /\ EndsWithSemicolons(arg.sql)) =>
    /\ Semicolons(ret.sql) = Semicolons(Core(arg.sql))
    /\ Semicolons(CountSQL(arg.sql)) = Semicolons(Core(arg.sql))
    /\ LimitRegexMatch(Core(arg.sql)) # <<>> =>
         ret.sql = addPaginationToSQL(Core(arg.sql), arg.limit, arg.offset)

-----------------------------------------------------------------------------
(* C25: the count statement *)

\* the calls whose count statement has been sent to the database
Counting ==
  {c \in DOMAIN calls : ~calls[c].req.dryRun /\ Len(calls[c].db) = 2}

\* C25: the count statement wraps the statement as it was before pagination,
\* with its trailing semicolons stripped, in 'SELECT COUNT(*) as total_count
\* FROM (' and ') as count_query'. It depends on the text alone, never on
\* page or pageSize, it does not wrap the paginated statement, and totalRows
\* of the result is the total the database answered for it (0 when the count
\* statement failed), on every page.
C25_CountFromOriginal ==
  \A c \in Counting :
    LET call == calls[c]
        original == SubSeq(call.db[2], Len(countPrefix) + 1,
                           Len(call.db[2]) - Len(countSuffix))
    IN  /\ call.db[2] = countPrefix \o original \o countSuffix
        /\ original = StripTrailingSemicolons(Trim(call.req.sql))
        /\ call.db[1] = PaginatedSQL(call.req)
        /\ original # call.db[1]
        /\ (call.pc = "done" /\ call.out.kind = "returned") =>
             call.out.value.pagination.totalRows =
               IF call.countFailed THEN 0 ELSE call.counted

C25_Witness ==
  \E c \in Counting :
    /\ calls[c].req.sql = sqlOrdersLimit5
    /\ calls[c].req.page = 2
    /\ calls[c].pc = "done"
    /\ calls[c].db[2] = countPrefix \o sqlOrdersLimit5 \o countSuffix
    /\ calls[c].out.kind = "returned"
    /\ calls[c].out.value.pagination.totalRows = 3
    /\ prev.req.sql = sqlOrdersLimit5
    /\ prev.req.page = 1
    /\ prev.value.pagination.totalRows = 3

-----------------------------------------------------------------------------
(* SpecOverlap: two calls in flight at once. Each of the two slots runs one
   call, of executeQuery or of CacheService.getOrSet; their awaits settle in
   any order. *)

getOrSetTTL == 3600
DefaultGetOptions == [trackMetrics |-> TRUE, parseJSON |-> TRUE]
DefaultSetOptions == [compress |-> FALSE, stringifyJSON |-> TRUE]

\* what the supplier handed to getOrSet may return
freshA == resSmall
freshB == [resSmall EXCEPT !.metadata.executionTime = 5]
Fetched == {freshA, freshB, Null}

\* getOrSet to the end of its await this.get(key, options)
GetOrSetLookup(c) ==
  /\ calls[c].pc = "idle"
  /\ \E getOutcome \in ClientOutcomes, delOutcome \in ClientOutcomes :
       LET r == RedisGet(store, isConnected, keyQueryA, getOutcome, delOutcome)
           g == CacheServiceGet(r.value, metrics, DefaultGetOptions)
           call == [IdleCall EXCEPT !.key = keyQueryA, !.lookupKey = keyQueryA,
                                    !.cache = <<"get">>,
                                    !.absent0 = keyQueryA \notin DOMAIN store,
                                    !.clean = isConnected]
       IN  /\ getOutcome = "throws" => delOutcome = "ok"
           /\ store' = r.store
           /\ metrics' = g.metrics
           /\ calls' = [calls EXCEPT ![c] =
                IF g.value # Null
                  THEN Done(call, Returned(g.value))
                  ELSE [call EXCEPT !.pc = "fetch"]]
  /\ UNCHANGED <<dbType, isConnected, prev, arg, ret, ops>>

\* await fetchFunction() settles
GetOrSetFetched(c) ==
  LET call == calls[c]
  IN  /\ call.pc = "fetch"
      /\ \/ calls' = [calls EXCEPT ![c] =
                Done(call, Thrown(Err("fetchFunction failed", <<>>)))]
         \/ \E freshData \in Fetched :
              calls' = [calls EXCEPT ![c] =
                IF freshData # Null
                  THEN [call EXCEPT !.pc = "cacheSet", !.fresh = freshData,
                                    !.result = freshData,
                                    !.cache = Append(@, "set")]
                  ELSE Done([call EXCEPT !.fresh = freshData], Returned(freshData))]
      /\ UNCHANGED <<dbType, isConnected, store, metrics, prev, arg, ret, ops>>

\* await this.set(key, freshData, ttl, options) settles
GetOrSetStored(c) ==
  LET call == calls[c]
  IN  /\ call.pc = "cacheSet"
      /\ \E setOutcome \in ClientOutcomes :
           LET s == CacheServiceSet(store, isConnected, call.key, call.result,
                                    getOrSetTTL, DefaultSetOptions, setOutcome)
           IN  /\ store' = s.store
               /\ calls' = [calls EXCEPT ![c] =
                    Done(IF s.stored THEN call ELSE Failed(call, "set: not stored"),
                         Returned(call.result))]
      /\ UNCHANGED <<dbType, isConnected, metrics, prev, arg, ret, ops>>

OverlapRequests ==
  {Req(sqlOrdersLimit5, p, defaultPageSize, TRUE, FALSE) : p \in 1..2}

InitOverlap ==
  /\ dbType \in {"postgresql", "mysql", "sqlite"}
  /\ isConnected = FALSE
  /\ store = <<>>
  /\ metrics = [hits |-> 0, misses |-> 0, errors |-> 0, totalRequests |-> 0]
  /\ calls = <<IdleCall, IdleCall>>
  /\ prev = NoPrev
  /\ ops = 0
  /\ arg = NoValue
  /\ ret = NoValue

BeginOverlap(c) ==
  /\ calls[c].pc = "idle"
  /\ Begin(c)
  /\ calls'[c].req \in OverlapRequests

NextOverlap ==
  \/ \E c \in DOMAIN calls : BeginOverlap(c)
  \/ \E c \in DOMAIN calls : GetReturns(c)
  \/ \E c \in DOMAIN calls : PageReturns(c)
  \/ \E c \in DOMAIN calls : CountReturns(c)
  \/ \E c \in DOMAIN calls : SetReturns(c)
  \/ \E c \in DOMAIN calls : GetOrSetLookup(c)
  \/ \E c \in DOMAIN calls : GetOrSetFetched(c)
  \/ \E c \in DOMAIN calls : GetOrSetStored(c)
  \/ RedisConnect

SpecOverlap == InitOverlap /\ [][NextOverlap]_vars

\* the result a call computed from the answers of its own two statements
OwnResult(call) ==
  BuildResult(call.req, call.answer,
              IF call.countFailed THEN 0 ELSE call.counted)

Querying == {c \in DOMAIN calls : calls[c].req \in OverlapRequests}
Supplying == {c \in DOMAIN calls : calls[c].lookupKey = keyQueryA}

\* finished calls get what they computed themselves, or what they looked up
OwnValue ==
  /\ \A c \in Finished \cap Querying :
       LET call == calls[c]
       IN  /\ call.out.kind = "thrown" => call.pageFailed
           /\ (call.out.kind = "returned" /\ Len(call.db) = 2) =>
                call.out.value = OwnResult(call)
           /\ (call.out.kind = "returned" /\ Len(call.db) = 0) =>
                call.out.value.fromCache
  /\ \A c \in Finished \cap Supplying :
       LET call == calls[c]
       IN  /\ call.out.kind = "thrown" => call.out.error.msg = "fetchFunction failed"
           /\ (call.out.kind = "returned" /\ call.fresh # NoResult) =>
                call.out.value = call.fresh

\* a write that succeeds replaces whatever is stored under the key
LastWriteWins ==
  \A c \in DOMAIN calls :
    (/\ calls[c].pc \in {"set", "cacheSet"}
     /\ calls'[c].pc = "done"
     /\ calls'[c].failures \cap {"set: client threw", "set: not stored"} = {}) =>
      /\ calls[c].key \in DOMAIN store'
      /\ store'[calls[c].key].raw = JSONStringify(JSONStringify(calls[c].result))

\* C26: two overlapping calls of executeQuery, or of getOrSet, for one absent
\* key may both miss, both ask the database or the supplier, and both write.
\* Every write that succeeds replaces the stored entry, so the entry stored in
\* the end is the one written last; no call throws unless its own statement
\* or supplier failed, and every call that computed a value returns the
\* value it computed itself.
C26_NoStampedeProtection == [][LastWriteWins /\ OwnValue']_vars

C26_Witness ==
  /\ Finished = {1, 2}
  /\ calls[1].lookupKey = calls[2].lookupKey
  /\ \A c \in {1, 2} :
       /\ calls[c].cache = <<"get", "client.get", "set", "client.setEx">>
       /\ calls[c].failures = {}
       /\ Len(calls[c].db) = 2
       /\ calls[c].out.value = OwnResult(calls[c])
  /\ calls[1].out.value # calls[2].out.value
  /\ store[calls[1].key].raw = JSONStringify(JSONStringify(calls[2].out.value))

\* the same with two getOrSet calls
C26_WitnessGetOrSet ==
  /\ Finished = {1, 2}
  /\ \A c \in {1, 2} :
       /\ calls[c].lookupKey = keyQueryA
       /\ calls[c].absent0
       /\ calls[c].cache = <<"get", "set">>
       /\ calls[c].failures = {}
  /\ calls[1].out.value = freshB
  /\ calls[2].out.value = freshA
  /\ store[keyQueryA].raw = JSONStringify(JSONStringify(freshB))

-----------------------------------------------------------------------------
(* C27: the rows of the pages against the rows of the submitted statement *)

\* the rows of the table the statements select from, in their fixed order
TableRows == 60

\* where the number that ends at position e of the text begins
NumberStart(s, e) ==
  CHOOSE i \in 1..e : AllDigits(s, i, e) /\ (i = 1 \/ ~IsDigitCh(s[i - 1]))

\* the window the database reads at the end of a statement: 'LIMIT n',
\* 'LIMIT n OFFSET m' or 'LIMIT m, n'
WindowOf(statement) ==
  LET m == LimitRegexMatch(statement)
      last == NumberStart(statement, Len(statement))
  IN  IF m # <<>>
        THEN [limit |-> ParseInt(SubSeq(statement, m[2], m[3])),
              offset |-> IF m[3] = Len(statement) THEN 0
                         ELSE ParseInt(SubSeq(statement, last, Len(statement)))]
        ELSE [limit |-> ParseInt(SubSeq(statement, last, Len(statement))),
              offset |-> ParseInt(SubSeq(statement, NumberStart(statement, last - 3),
                                         last - 3))]

\* the rows a database that honours LIMIT and OFFSET answers for a window
RowsOf(window) ==
  {i \in 1..TableRows : window.offset < i /\ i <= window.offset + window.limit}

\* C27 as stated: for a statement that ends in 'LIMIT n' or 'LIMIT n OFFSET
\* m', on each of the pages 1..totalPages every row is a row of the submitted
\* statement: no page holds a row beyond the statement's own LIMIT or in
\* front of its own OFFSET.
C27_PagingFaithful ==
  LET cleanSQL == StripTrailingSemicolons(Trim(arg.sql))
      totalRows == Cardinality(RowsOf(WindowOf(cleanSQL)))
      page == (arg.offset \div arg.limit) + 1
  IN  (/\ Paginated
       /\ LimitRegexMatch(cleanSQL) # <<>>
       /\ page <= CeilDiv(totalRows, arg.limit)) =>
        RowsOf(WindowOf(ret.sql)) \subseteq RowsOf(WindowOf(cleanSQL))

-----------------------------------------------------------------------------
(* C28: a set followed by a get of the same key *)

\* a set of a JSON value returned true on a connected store, and the next
\* operation was a get of the same key, with the default options, that the
\* store answered
GetAfterSet ==
  /\ ret.fn = "CacheService.get"
  /\ ret.answered
  /\ ret.options = DefaultGetOptions
  /\ "fn" \in DOMAIN prev
  /\ prev.fn = "CacheService.set"
  /\ prev.key = ret.key
  /\ prev.value
  /\ prev.connected
  /\ prev.written # Garbage

\* C28 as stated: whatever the options of the set (compress = true with a
\* value above maxSize among them), when CacheService.set returned true on a
\* connected store, a following CacheService.get of the key returns a value
\* equal to the one stored.
C28_RoundTrip ==
  GetAfterSet => ret.value = ResultToJSON(prev.written)

-----------------------------------------------------------------------------
(* SpecMetrics: CacheService.get calls suspended at their store access,
   interleaved with getStats and resetStats. A get counts the request before
   its await of redis.get and the hit, the miss or the error after it. *)

MaxGets == 3
MaxResets == 1

MetricsOptions ==
  {[trackMetrics |-> TRUE, parseJSON |-> TRUE],
   [trackMetrics |-> FALSE, parseJSON |-> TRUE]}

NoResets == [resets |-> 0]

\* the text of keyQueryA decodes to a string that is no JSON text, as after
\* set(key, text, ttl, {stringifyJSON: false})
InnerDamagedStore ==
  [k \in DOMAIN PopulatedStore |->
     IF k = keyQueryA THEN [raw |-> JSONStringify(Garbage), ttl |-> cacheTTL]
     ELSE PopulatedStore[k]]

InitMetrics ==
  /\ dbType = "postgresql"
  /\ isConnected = FALSE
  /\ store \in {<<>>, PopulatedStore, DamagedStore, InnerDamagedStore}
  /\ metrics = [hits |-> 0, misses |-> 0, errors |-> 0, totalRequests |-> 0]
  /\ calls = <<IdleCall, IdleCall>>
  /\ prev = NoResets
  /\ ops = 0
  /\ arg = NoValue
  /\ ret = NoValue

\* the part of CacheService.get after await redis.get(key): the request was
\* counted before the await
AfterRedisGet(value, mt, options) ==
  LET g == CacheServiceGet(value, [mt EXCEPT !.totalRequests = @ - 1], options)
  IN  g

\* CacheService.get up to its await of redis.get; RedisConfig.get answers a
\* disconnected store without an await of the client
StartGet(c) ==
  /\ calls[c].pc \in {"idle", "done"}
  /\ ops < MaxGets
  /\ ops' = ops + 1
  /\ \E key \in UsedKeys, options \in MetricsOptions :
       LET call == [IdleCall EXCEPT !.key = key, !.lookupKey = key,
                                    !.req = [fn |-> "CacheService.get",
                                             options |-> options],
                                    !.cache = <<"get">>]
           counted == [metrics EXCEPT !.totalRequests = @ + 1]
       IN  IF ~isConnected
             THEN LET g == AfterRedisGet(Null, counted, options)
                  IN  /\ metrics' = g.metrics
                      /\ calls' = [calls EXCEPT ![c] = Done(call, Returned(g.value))]
             ELSE /\ metrics' = counted
                  /\ calls' = [calls EXCEPT ![c] =
                       [call EXCEPT !.pc = "cacheGet",
                                    !.cache = Append(@, "client.get")]]
  /\ UNCHANGED <<dbType, isConnected, store, prev, arg, ret>>

\* client.get settles: RedisConfig.get and CacheService.get to their end
SettleGet(c) ==
  LET call == calls[c]
  IN  /\ call.pc = "cacheGet"
      /\ \E getOutcome \in ClientOutcomes, delOutcome \in ClientOutcomes :
           LET r == RedisGet(store, isConnected, call.key, getOutcome, delOutcome)
               g == AfterRedisGet(r.value, metrics, call.req.options)
           IN  /\ getOutcome = "throws" => delOutcome = "ok"
               /\ store' = r.store
               /\ metrics' = g.metrics
               /\ calls' = [calls EXCEPT ![c] =
                    Done([call EXCEPT !.fresh = r.value], Returned(g.value))]
      /\ UNCHANGED <<dbType, isConnected, prev, arg, ret, ops>>

\* hits / totalRequests * 100 and errors / totalRequests * 100, in hundredths
\* of a percent as toFixed(2) prints them
Rate(n, total) ==
  IF total > 0 THEN (n * 10000 + total \div 2) \div total ELSE 0

getStats(mt) ==
  [hits |-> mt.hits, misses |-> mt.misses, errors |-> mt.errors,
   totalRequests |-> mt.totalRequests,
   hitRate |-> Rate(mt.hits, mt.totalRequests),
   errorRate |-> Rate(mt.errors, mt.totalRequests)]

GetStats ==
  /\ ret' = [fn |-> "getStats", value |-> getStats(metrics)]
  /\ UNCHANGED <<dbType, isConnected, store, metrics, calls, prev, arg, ops>>

\* resetStats while gets may be suspended
ResetStatsNow ==
  /\ prev.resets < MaxResets
  /\ prev' = [resets |-> prev.resets + 1]
  /\ metrics' = [hits |-> 0, misses |-> 0, errors |-> 0, totalRequests |-> 0]
  /\ UNCHANGED <<dbType, isConnected, store, calls, arg, ret, ops>>

NextMetrics ==
  \/ \E c \in DOMAIN calls : StartGet(c)
  \/ \E c \in DOMAIN calls : SettleGet(c)
  \/ GetStats
  \/ ResetStatsNow
  \/ RedisConnect

SpecMetrics == InitMetrics /\ [][NextMetrics]_vars

Suspended == {c \in DOMAIN calls : calls[c].pc = "cacheGet"}

\* the value of a finished get is the one its store access decides
ValueFromStore ==
  \A c \in Finished :
    calls[c].out.value =
      IF calls[c].fresh \in {NoResult, Null} THEN Null
      ELSE IF IsString(calls[c].fresh)
        THEN IF JSONParseFails(calls[c].fresh) THEN Null
             ELSE JSONParse(calls[c].fresh)
      ELSE calls[c].fresh

C29_ResetRace ==
  /\ prev.resets = 1
  /\ Suspended = {}
  /\ metrics.hits > metrics.totalRequests
  /\ ret.fn = "getStats"
  /\ ret.value.hitRate > 10000

-----------------------------------------------------------------------------
(* SpecTrim: saveQuery calls of one user in flight at once, step by step
   through addToUserHistory. The members of the user's sorted set are the
   timestamps of the entries, which are their scores. *)

maxHistoryPerUser == 100
MaxSaves == 3

trimUser == "alice"
trimQuery == <<wShow, wOrders>>

\* the user's sorted set with the entries of timestamps 1..n
UserHistoryOf(n) ==
  (UserHistoryKey(trimUser) :> [members |-> 1..n, ttl |-> historyTTL])

InitTrim ==
  /\ dbType = "postgresql"
  /\ isConnected = FALSE
  /\ store \in {UserHistoryOf(maxHistoryPerUser - 1), UserHistoryOf(maxHistoryPerUser)}
  /\ metrics = [hits |-> 0, misses |-> 0, errors |-> 0, totalRequests |-> 0]
  /\ calls = <<IdleCall, IdleCall>>
  /\ prev = [saved |-> Members(store, UserHistoryKey(trimUser))]
  /\ ops = 0
  /\ arg = NoValue
  /\ ret = NoValue

\* client.zRemRangeByRank(key, start, stop): the members of ranks start..stop
\* in ascending order of score are removed
ZRemRangeByRank(st, key, start, stop) ==
  LET ms == Members(st, key)
      rank(m) == Cardinality({x \in ms : x < m})
      kept == {m \in ms : rank(m) < start \/ rank(m) > stop}
  IN  IF key \notin DOMAIN st THEN st
      ELSE IF kept = {} THEN [x \in DOMAIN st \ {key} |-> st[x]]
      ELSE [st EXCEPT ![key].members = kept]

\* saveQuery up to the await of cacheService.set(entryKey, historyEntry, ttl)
\* in addToUserHistory; the timestamp is the time of the call
BeginSave(c) ==
  /\ calls[c].pc \in {"idle", "done"}
  /\ ops < MaxSaves
  /\ ops' = ops + 1
  /\ calls' = [calls EXCEPT ![c] =
       [IdleCall EXCEPT !.pc = "entry",
                        !.key = UserHistoryKey(trimUser),
                        !.req = [fn |-> "saveQuery", userId |-> trimUser,
                                 id |-> maxHistoryPerUser + ops + 1,
                                 timestamp |-> maxHistoryPerUser + ops + 1]]]
  /\ UNCHANGED <<dbType, isConnected, store, metrics, prev, arg, ret>>

\* cacheService.set(entryKey, historyEntry, historyTTL) settles
EntryStored(c) ==
  LET call == calls[c]
      entry == HistoryEntry(call.req.id, call.req.userId, trimQuery)
  IN  /\ call.pc = "entry"
      /\ store' = CacheServiceSet(store, isConnected, EntryKey(call.req.id), entry,
                                  historyTTL, DefaultSetOptions, "ok").store
      /\ calls' = [calls EXCEPT ![c].pc = "zadd"]
      /\ UNCHANGED <<dbType, isConnected, metrics, prev, arg, ret, ops>>

\* redis.zadd(userHistoryKey, timestamp, historyEntry.id) settles
ZaddReturns(c) ==
  LET call == calls[c]
  IN  /\ call.pc = "zadd"
      /\ IF isConnected
           THEN /\ store' = SAdd(store, call.key, call.req.timestamp,
                                 IF call.key \in DOMAIN store THEN store[call.key].ttl
                                 ELSE 0)
                /\ prev' = [prev EXCEPT !.saved = @ \cup {call.req.timestamp}]
           ELSE UNCHANGED <<store, prev>>
      /\ calls' = [calls EXCEPT ![c].pc = "zcard"]
      /\ UNCHANGED <<dbType, isConnected, metrics, arg, ret, ops>>

\* redis.zcard(userHistoryKey) settles: count, and the test of the trim
ZcardReturns(c) ==
  LET call == calls[c]
      count == IF isConnected THEN Cardinality(Members(store, call.key)) ELSE 0
  IN  /\ call.pc = "zcard"
      /\ calls' = [calls EXCEPT ![c] =
           [call EXCEPT !.counted = count,
                        !.pc = IF count > maxHistoryPerUser THEN "trim" ELSE "expire"]]
      /\ UNCHANGED <<dbType, isConnected, store, metrics, prev, arg, ret, ops>>

\* redis.zremrangebyrank(userHistoryKey, 0, count - maxHistoryPerUser - 1)
\* settles
TrimReturns(c) ==
  LET call == calls[c]
  IN  /\ call.pc = "trim"
      /\ store' = IF isConnected
                    THEN ZRemRangeByRank(store, call.key, 0,
                                         call.counted - maxHistoryPerUser - 1)
                    ELSE store
      /\ calls' = [calls EXCEPT ![c].pc = "expire"]
      /\ UNCHANGED <<dbType, isConnected, metrics, prev, arg, ret, ops>>

\* redis.expire(userHistoryKey, historyTTL) settles; the rest of saveQuery:
\* addToGlobalHistory (far below maxGlobalHistory) and indexQuery
ExpireReturns(c) ==
  LET call == calls[c]
      id == call.req.id
      s1 == IF call.key \in DOMAIN store
              THEN [store EXCEPT ![call.key].ttl = historyTTL] ELSE store
      s2 == SAdd(s1, GlobalHistoryKey, id, 0)
      indexKeys == {IndexKey(w) : w \in QueryWords(trimQuery)}
      s3 == [x \in DOMAIN s2 \cup indexKeys |->
               IF x \in indexKeys
                 THEN [members |-> Members(s2, x) \cup {id}, ttl |-> historyTTL]
                 ELSE s2[x]]
  IN  /\ call.pc = "expire"
      /\ store' = IF isConnected THEN s3 ELSE store
      /\ calls' = [calls EXCEPT ![c] = Done(call, Returned(id))]
      /\ UNCHANGED <<dbType, isConnected, metrics, prev, arg, ret, ops>>

NextTrim ==
  \/ \E c \in DOMAIN calls : BeginSave(c)
  \/ \E c \in DOMAIN calls : EntryStored(c)
  \/ \E c \in DOMAIN calls : ZaddReturns(c)
  \/ \E c \in DOMAIN calls : ZcardReturns(c)
  \/ \E c \in DOMAIN calls : TrimReturns(c)
  \/ \E c \in DOMAIN calls : ExpireReturns(c)
  \/ RedisConnect

SpecTrim == InitTrim /\ [][NextTrim]_vars

Saving == {c \in DOMAIN calls : calls[c].pc \notin {"idle", "done"}}

UserHistory == Members(store, UserHistoryKey(trimUser))

\* the maxHistoryPerUser most recent of a set of timestamps
Newest(saved) ==
  {m \in saved : Cardinality({x \in saved : x > m}) < maxHistoryPerUser}

\* C30 as stated: no trim leaves the user's set with fewer entries than
\* min(k, 100), k being the number of entries saved, and once every saveQuery
\* call has completed, overlapping calls among them, the set holds the
\* min(k, 100) most recent entries.
C30_BoundedHistory ==
  /\ Cardinality(UserHistory) >= Min(Cardinality(prev.saved), maxHistoryPerUser)
  /\ Saving = {} => UserHistory = Newest(prev.saved)

\* calls that do not overlap keep the newest hundred
C30_Sequential ==
  /\ Saving = {}
  /\ Cardinality(prev.saved) = maxHistoryPerUser + MaxSaves
  /\ UserHistory = Newest(prev.saved)
  /\ Cardinality(UserHistory) = maxHistoryPerUser

====
